---- MODULE Spec2Model ----
(***************************************************************************)
(* GPX track and geotagged-photo visualizer: the GPX-to-Track normalizer,  *)
(* the track statistics aggregator, the tracks collection of the session,  *)
(* the photo upload pipeline, the thumbnail maker and the map export.      *)
(*                                                                         *)
(* Encoding conventions                                                    *)
(*  - an optional value (TypeScript `x?: T`, `T | undefined`, `T | null`)   *)
(*    is None (absent) or Some(v);                                         *)
(*  - an absent list (gpx.tracks undefined) is the empty list: every guard *)
(*    of the source reads `list && list.length > 0`;                       *)
(*  - coordinates are whole degrees on the 60-degree lattice, where the    *)
(*    haversine terms are exact rationals; distances are whole metres;     *)
(*  - timestamps are milliseconds since the epoch.                         *)
(***************************************************************************)
EXTENDS Integers, Sequences, FiniteSets, TLC

VARIABLES
    segments,   \* calculateTrackStats: the argument
    stats,      \* calculateTrackStats: None until it returned, then Some(TrackStats)
    gpx,        \* parseGPXString: the parsed document (tracks, routes, waypoints)
    fileName,   \* parseGPXString: the optional fileName argument
    parsed,     \* parseGPXString: its outcome (pending, ok with tracks, error)
    tracks,         \* useTracks: the tracks collection
    clock,          \* the reading Date.now() would give now, in milliseconds
    isUploading,    \* FileUploader: the uploading flag
    uploadedFiles,  \* FileUploader: the list of uploaded files
    upload,         \* FileUploader: the file whose onFileUpload is awaited, if any
    handled,        \* the number of files handed to handleFile so far
    toasts,         \* the notifications shown so far, oldest first
    photos,         \* usePhotos: the photos collection
    isProcessing,   \* usePhotos: the processing flag
    photoBatch,     \* the handleFiles / addMultiplePhotos call in flight or last returned
    batches,        \* the number of batches handed to handleFiles so far
    addCalls,       \* usePhotos: the addPhoto calls in flight and started so far
    thumb,          \* the createThumbnail call: its image, timer and promise
    mapMounted,     \* the map view is mounted: mapRef.current is set
    isExporting,    \* ExportButton: the exporting flag, set while exportMap is awaited
    controlsHidden, \* MapView: the map controls are hidden for the snapshot
    downloads,      \* the names of the files downloaded so far
    exports,        \* the number of export requests so far
    edits           \* the number of style changes and visibility toggles so far

statsVars == <<segments, stats>>
parseVars == <<gpx, fileName, parsed>>
sessionVars == <<tracks, isUploading, uploadedFiles, upload, handled>>
photoVars == <<photos, isProcessing, photoBatch, batches, addCalls, thumb>>
exportVars == <<mapMounted, isExporting, controlsHidden, downloads, exports>>
editVars == <<edits>>
sharedVars == <<clock, toasts>>

vars == <<statsVars, parseVars, sessionVars, photoVars, exportVars, editVars, sharedVars>>

----------------------------------------------------------------------------
(* Optional values *)

None == <<>>
Some(v) == <<v>>
IsSome(o) == o # None
Get(o) == o[1]

(* JavaScript truthiness of an optional string: undefined and "" are falsy *)
Truthy(o) == o # None /\ Get(o) # ""

(* a || b on optional strings *)
Or(a, b) == IF Truthy(a) THEN a ELSE b

SeqsUpTo(S, n) == UNION {[1..k -> S] : k \in 0..n}

RECURSIVE SumSeq(_)
SumSeq(s) == IF s = <<>> THEN 0 ELSE Head(s) + SumSeq(Tail(s))

RECURSIVE SumSet(_, _)
SumSet(S, f) ==
    IF S = {} THEN 0
    ELSE LET x == CHOOSE y \in S : TRUE IN f[x] + SumSet(S \ {x}, f)

MathMin(a, b) == IF a < b THEN a ELSE b
MathMax(a, b) == IF a > b THEN a ELSE b
MathAbs(a) == IF a < 0 THEN -a ELSE a

----------------------------------------------------------------------------
(* Bounds of the model *)

MaxPoints == 3      \* points of one calculateTrackStats argument, all segments together
MaxSegments == 2    \* segments of one calculateTrackStats argument

----------------------------------------------------------------------------
(* Geodesic distance: haversine on the 60-degree lattice *)

\* Number.POSITIVE_INFINITY, above every elevation of the model
Infinity == 1000000

\* 4 * sin^2(d / 2) for d a multiple of 60 degrees
SinSqHalfTimes4(d) ==
    LET m == (MathAbs(d) % 360) IN
    CASE m = 0 -> 0
      [] m = 60 -> 1
      [] m = 120 -> 3
      [] m = 180 -> 4
      [] m = 240 -> 3
      [] m = 300 -> 1

\* 2 * cos(phi) for a latitude of -60, 0 or 60 degrees
CosTimes2(phi) == IF phi = 0 THEN 2 ELSE 1

\* R * 2 * atan2(sqrt(a), sqrt(1 - a)) in whole metres, a = a16 / 16, R = 6371000
ArcMetres(a16) ==
    <<0, 3219652, 4604540, 5706280, 6671696, 7558552, 8397717, 9209080,
      10007543, 10806007, 11617369, 12456535, 13343391, 14308806, 15410547,
      16795435, 20015087>>[a16 + 1]

\* the haversine with the sum of the latitudes where their difference belongs
calculateDistanceSumPhi(lat1, lon1, lat2, lon2) ==
    LET dphi == lat2 + lat1
        dlambda == lon2 - lon1
        a16 == 4 * SinSqHalfTimes4(dphi)
               + CosTimes2(lat1) * CosTimes2(lat2) * SinSqHalfTimes4(dlambda)
    IN ArcMetres(a16)

calculateDistance(lat1, lon1, lat2, lon2) ==
    LET dphi == lat2 - lat1
        dlambda == lon2 - lon1
        a16 == 4 * SinSqHalfTimes4(dphi)
               + CosTimes2(lat1) * CosTimes2(lat2) * SinSqHalfTimes4(dlambda)
    IN ArcMetres(a16)

----------------------------------------------------------------------------
(* Track statistics aggregator *)

\* the accumulators declared at the top of calculateTrackStats
StatsAcc ==
    [totalDistance |-> 0, elevationGain |-> 0, elevationLoss |-> 0,
     minElevation |-> Infinity, maxElevation |-> -Infinity,
     startTime |-> None, endTime |-> None]

\* the elevation part of one iteration of the for loop (min/max)
AccElevation(acc, point) ==
    IF point.ele # None
    THEN [acc EXCEPT !.minElevation = MathMin(@, Get(point.ele)),
                     !.maxElevation = MathMax(@, Get(point.ele))]
    ELSE acc

\* startTime from the first and endTime from the last timestamp met
AccTimeFirstLast(acc, point) ==
    IF point.time # None
    THEN [acc EXCEPT !.startTime = IF @ = None THEN point.time ELSE @,
                     !.endTime = point.time]
    ELSE acc

\* the time part of one iteration of the for loop
AccTime(acc, point) ==
    IF point.time # None
    THEN [acc EXCEPT
            !.startTime = IF @ = None \/ Get(point.time) < Get(@) THEN point.time ELSE @,
            !.endTime = IF @ = None \/ Get(point.time) > Get(@) THEN point.time ELSE @]
    ELSE acc

\* totalDistance += distance
AccDistance(acc, prevPoint, point) ==
    [acc EXCEPT !.totalDistance =
        @ + calculateDistance(prevPoint.lat, prevPoint.lon, point.lat, point.lon)]

\* elevationGain += elevDiff, or elevationLoss += Math.abs(elevDiff)
AccElevDiff(acc, elevDiff) ==
    IF elevDiff > 0
    THEN [acc EXCEPT !.elevationGain = @ + elevDiff]
    ELSE [acc EXCEPT !.elevationLoss = @ + MathAbs(elevDiff)]

\* the elevation delta with a missing elevation read as 0 (`point.ele ?? 0`)
AccGainLossEleDefaultZero(acc, prevPoint, point) ==
    AccElevDiff(acc, (IF point.ele # None THEN Get(point.ele) ELSE 0)
                     - (IF prevPoint.ele # None THEN Get(prevPoint.ele) ELSE 0))

\* the elevation delta of an adjacent pair, when both points carry an elevation
AccGainLoss(acc, prevPoint, point) ==
    IF point.ele # None /\ prevPoint.ele # None
    THEN AccElevDiff(acc, Get(point.ele) - Get(prevPoint.ele))
    ELSE acc

\* the `if (i > 0)` part of one iteration: distance and elevation delta
AccPair(acc, prevPoint, point) ==
    AccGainLoss(AccDistance(acc, prevPoint, point), prevPoint, point)

\* the previous point of the pair ending at index i, with the first point of a
\* segment paired with a sea-level copy of itself
PrevPointFromSeaLevel(points, i) ==
    IF i > 1 THEN Some(points[i - 1]) ELSE Some([points[i] EXCEPT !.ele = Some(0)])

\* the previous point of the pair ending at index i: none for the first point
PrevPoint(points, i) == IF i > 1 THEN Some(points[i - 1]) ELSE None

\* the `if (i > 0)` branch
AccPairIfAny(acc, prev, point) ==
    IF prev # None THEN AccPair(acc, Get(prev), point) ELSE acc

\* one iteration of the for loop; i is the 1-based index of the point
PointStep(acc, points, i) ==
    AccPairIfAny(AccTime(AccElevation(acc, points[i]), points[i]),
                 PrevPoint(points, i), points[i])

RECURSIVE SegmentLoop(_, _, _)
SegmentLoop(acc, points, i) ==
    IF i > Len(points) THEN acc
    ELSE SegmentLoop(PointStep(acc, points, i), points, i + 1)

\* one loop over the points of all segments, joined
SegmentsForEachJoined(acc, segs, k) ==
    LET RECURSIVE Joined(_)
        Joined(j) == IF j > Len(segs) THEN <<>> ELSE segs[j].points \o Joined(j + 1)
    IN SegmentLoop(acc, Joined(k), 1)

RECURSIVE SegmentsForEach(_, _, _)
SegmentsForEach(acc, segs, k) ==
    IF k > Len(segs) THEN acc
    ELSE SegmentsForEach(SegmentLoop(acc, segs[k].points, 1), segs, k + 1)

\* the duration expression: Date objects are always truthy
Duration(acc) ==
    IF acc.startTime # None /\ acc.endTime # None
    THEN Some((Get(acc.endTime) - Get(acc.startTime)) \div 1000)
    ELSE None

\* the returned record without the reset of the two sentinels
TrackStatsNoReset(acc) ==
    [distance |-> acc.totalDistance,
     elevationGain |-> acc.elevationGain,
     elevationLoss |-> acc.elevationLoss,
     minElevation |-> acc.minElevation,
     maxElevation |-> acc.maxElevation,
     duration |-> Duration(acc)]

\* the returned record, built from the accumulators after the loops
TrackStats(acc) ==
    [distance |-> acc.totalDistance,
     elevationGain |-> acc.elevationGain,
     elevationLoss |-> acc.elevationLoss,
     minElevation |-> IF acc.minElevation = Infinity THEN 0 ELSE acc.minElevation,
     maxElevation |-> IF acc.maxElevation = -Infinity THEN 0 ELSE acc.maxElevation,
     duration |-> Duration(acc)]

calculateTrackStats(segs) == TrackStats(SegmentsForEach(StatsAcc, segs, 1))

----------------------------------------------------------------------------
(* Inputs of the statistics aggregator *)

\* the points of this specification differ in elevation and timestamp only
Latitudes == {0}
Longitudes == {0}
Elevations == {None, Some(100), Some(150)}
Times == {None, Some(0), Some(2000)}

TrackPoints == [lat : Latitudes, lon : Longitudes, ele : Elevations, time : Times]

\* cut the point list pts into segments of the given lengths
RECURSIVE Split(_, _)
Split(pts, lens) ==
    IF lens = <<>> THEN <<>>
    ELSE <<[points |-> SubSeq(pts, 1, Head(lens))]>>
         \o Split(SubSeq(pts, Head(lens) + 1, Len(pts)), Tail(lens))

\* the ways to cut n points into at most MaxSegments segments (empty ones included)
Compositions(n) == {lens \in SeqsUpTo(0..n, MaxSegments) : SumSeq(lens) = n}

\* the positions <<segment, index>> of the points of a segment list
AllPoints(segs) ==
    UNION {{<<k, i>> : i \in 1..Len(segs[k].points)} : k \in 1..Len(segs)}

PointCount(segs) == SumSeq([k \in 1..Len(segs) |-> Len(segs[k].points)])

----------------------------------------------------------------------------
(* GPX-to-Track normalizer *)

\* new Date(time) for the timestamp strings of the model, in milliseconds
NewDate(time) ==
    CASE time = "1970-01-01T00:00:00Z" -> 0
      [] time = "1970-01-01T00:00:02Z" -> 2000

DEFAULT_STYLE == [color |-> "#E53E3E", width |-> 3, opacity |-> 1, lineStyle |-> "solid"]

\* the TrackPoint built from a point of a source track
TrackPointOfTrack(point) ==
    [lat |-> point.lat, lon |-> point.lon, ele |-> point.ele,
     time |-> IF Truthy(point.time) THEN Some(NewDate(Get(point.time))) ELSE None]

\* the TrackPoint built from a point of a route or from a waypoint: no time
TrackPointNoTime(point) ==
    [lat |-> point.lat, lon |-> point.lon, ele |-> point.ele, time |-> None]

MapSeq(s, Op(_)) == [i \in 1..Len(s) |-> Op(s[i])]

\* the segments of a source track: none for an empty point list, else one
SegmentsOfTrack(points) ==
    IF points = <<>> THEN <<>>
    ELSE <<[points |-> MapSeq(points, TrackPointOfTrack)]>>

\* the segments of a route or of the waypoints: always exactly one
SegmentsNoTime(points) == <<[points |-> MapSeq(points, TrackPointNoTime)]>>

OrdinalLabel(kind, index) == kind \o " " \o ToString(index + 1)

\* gpxTrack.name || fileName || `Track ${trackIndex + 1}`
TrackName(gpxTrack, file, trackIndex) ==
    Get(Or(Or(gpxTrack.name, file), Some(OrdinalLabel("Track", trackIndex))))

\* route.name || `Route ${routeIndex + 1}`
RouteName(route, file, routeIndex) ==
    Get(Or(route.name, Some(OrdinalLabel("Route", routeIndex))))

\* the waypoint name without the file name
WaypointsNameFixed(file) == "Waypoints"

\* fileName || 'Waypoints'
WaypointsName(file) == Get(Or(file, Some("Waypoints")))

NewTrack(id, name, segs) ==
    [id |-> id, name |-> name, segments |-> segs, style |-> DEFAULT_STYLE,
     visible |-> TRUE, stats |-> calculateTrackStats(segs)]

\* the Tracks pushed by the loop over gpx.tracks; trackIndex is 0-based
TracksOfTracks(doc, file, now) ==
    [i \in 1..Len(doc.tracks) |->
        NewTrack(<<"track", now, i - 1>>,
                 TrackName(doc.tracks[i], file, i - 1),
                 SegmentsOfTrack(doc.tracks[i].points))]

\* the loop over gpx.routes guarded by the absence of tracks (an else-if)
TracksOfRoutesUnlessTracks(doc, file, now) ==
    IF Len(doc.tracks) > 0 THEN <<>>
    ELSE [j \in 1..Len(doc.routes) |->
            NewTrack(<<"route", now, j - 1>>,
                     RouteName(doc.routes[j], file, j - 1),
                     SegmentsNoTime(doc.routes[j].points))]

\* the loop over gpx.routes copying the time of the points as the loop over
\* gpx.tracks does
TracksOfRoutesKeepTime(doc, file, now) ==
    [j \in 1..Len(doc.routes) |->
        NewTrack(<<"route", now, j - 1>>,
                 RouteName(doc.routes[j], file, j - 1),
                 <<[points |-> MapSeq(doc.routes[j].points, TrackPointOfTrack)]>>)]

\* the Tracks pushed by the loop over gpx.routes; routeIndex is 0-based
TracksOfRoutes(doc, file, now) ==
    [j \in 1..Len(doc.routes) |->
        NewTrack(<<"route", now, j - 1>>,
                 RouteName(doc.routes[j], file, j - 1),
                 SegmentsNoTime(doc.routes[j].points))]

\* the waypoint Track guarded by the absence of source tracks only
TracksOfWaypointsUnlessSourceTracks(doc, file, now, pushed) ==
    IF Len(doc.waypoints) > 0 /\ Len(doc.tracks) = 0
    THEN <<NewTrack(<<"waypoints", now>>, WaypointsName(file),
                    SegmentsNoTime(doc.waypoints))>>
    ELSE <<>>

\* the Track pushed for the waypoints; pushed is the local list `tracks` so far
TracksOfWaypoints(doc, file, now, pushed) ==
    IF Len(doc.waypoints) > 0 /\ Len(pushed) = 0
    THEN <<NewTrack(<<"waypoints", now>>, WaypointsName(file),
                    SegmentsNoTime(doc.waypoints))>>
    ELSE <<>>

NoGeometryFound == "No tracks, routes, or waypoints found in GPX file"
ParserNotAvailable == "GPX Parser not available"

Returned(list) == [kind |-> "ok", tracks |-> list, message |-> ""]
Thrown(message) == [kind |-> "error", tracks |-> <<>>, message |-> message]
Pending == [kind |-> "pending", tracks |-> <<>>, message |-> ""]

\* the third step, after the tracks and routes pushed so far
WithWaypoints(doc, file, now, pushed) ==
    pushed \o TracksOfWaypoints(doc, file, now, pushed)

\* the local list `tracks` after the three steps, before the final check
NormalizedTracks(doc, file, now) ==
    WithWaypoints(doc, file, now,
                  TracksOfTracks(doc, file, now) \o TracksOfRoutes(doc, file, now))

\* the end of parseGPXString without the final check
ReturnAlways(list) == Returned(list)

\* the end of parseGPXString: throw on an empty list, else return it
ThrowIfEmpty(list) ==
    IF Len(list) = 0 THEN Thrown(NoGeometryFound) ELSE Returned(list)

\* parseGPXString from `const tracks: Track[] = []` on; doc is the state of the
\* library's parser after gpx.parse(gpxText), now the reading of Date.now()
parseGPXString(doc, file, now) == ThrowIfEmpty(NormalizedTracks(doc, file, now))

----------------------------------------------------------------------------
(* Inputs of the normalizer *)

MaxItems == 3       \* tracks, routes and waypoints of one document, together
MaxClock == 1       \* the readings of Date.now() are 0..MaxClock

Names == {None, Some(""), Some("Alps")}
FileNames == {None, Some(""), Some("ride.gpx")}

gA == [lat |-> 0, lon |-> 0, ele |-> Some(100), time |-> Some("1970-01-01T00:00:02Z")]
gB == [lat |-> 0, lon |-> 60, ele |-> None, time |-> Some("1970-01-01T00:00:00Z")]
gC == [lat |-> 60, lon |-> 60, ele |-> Some(150), time |-> Some("")]
gD == [lat |-> 60, lon |-> 0, ele |-> Some(100), time |-> None]

GpxPointLists == {<<>>, <<gA>>, <<gB, gA, gC, gD>>}

GpxTracks == [name : Names, points : GpxPointLists]
GpxRoutes == [name : Names, points : GpxPointLists]
GpxWaypoints ==
    {[lat |-> 60, lon |-> 0, ele |-> Some(150), name |-> Some("Hut")],
     [lat |-> 0, lon |-> 60, ele |-> None, name |-> None]}

GpxDocuments ==
    UNION {[tracks : [1..n[1] -> GpxTracks],
            routes : [1..n[2] -> GpxRoutes],
            waypoints : [1..n[3] -> GpxWaypoints]] :
           n \in {m \in (0..MaxItems) \X (0..MaxItems) \X (0..MaxItems) :
                     m[1] + m[2] + m[3] <= MaxItems}}

----------------------------------------------------------------------------
(* Files, and the tracks collection of the session *)

MaxEdits == 2       \* style changes and visibility toggles of one session
MaxUploads == 2     \* files handed to the GPX uploader in one session

\* the values of Math.random().toString(36).substr(2, 9) in the model
RandomSuffixes == {"k3x9q", "q7m2z"}

\* String.prototype.toLowerCase on the name parts of the model
ToLowerCase(part) ==
    CASE part = "GPX" -> "gpx"
      [] part = "JPG" -> "jpg"
      [] part = "PNG" -> "png"
      [] part = "HEIC" -> "heic"
      [] OTHER -> part

\* a file name is kept as its parts between the dots: name.split('.')
RECURSIVE JoinName(_)
JoinName(parts) ==
    IF Len(parts) = 1 THEN parts[1]
    ELSE parts[1] \o "." \o JoinName(Tail(parts))

\* `.${file.name.split('.').pop()?.toLowerCase()}`
FileExtension(file) == "." \o ToLowerCase(file.name[Len(file.name)])

GpxAcceptedFormats == {".gpx"}

EmptyDocument == [tracks |-> <<>>, routes |-> <<>>, waypoints |-> <<>>]

\* the GPX files of the session: a file with a track and a route, a file without
\* geometry, and a file that is no GPX file
GpxFiles ==
    {[name |-> <<"ride", "gpx">>,
      doc |-> [tracks |-> <<[name |-> Some("Alps"), points |-> <<gB, gA>>]>>,
               routes |-> <<[name |-> None, points |-> <<gD>>]>>,
               waypoints |-> <<>>]],
     [name |-> <<"empty", "GPX">>, doc |-> EmptyDocument],
     [name |-> <<"notes", "txt">>, doc |-> EmptyDocument]}

\* the id of addTrack: `track-${Date.now()}-${Math.random()...}`
TrackId(now, suffix) == <<"track", now, suffix>>

\* an addTrack that would append the Track hidden
addTrackHidden(track, now, suffix) ==
    [id |-> TrackId(now, suffix), name |-> track.name, segments |-> track.segments,
     style |-> DEFAULT_STYLE, visible |-> FALSE, stats |-> track.stats]

\* the Track addTrack appends for the argument track
addTrack(track, now, suffix) ==
    [id |-> TrackId(now, suffix), name |-> track.name, segments |-> track.segments,
     style |-> DEFAULT_STYLE, visible |-> TRUE, stats |-> track.stats]

\* the argument handleFileUpload builds for addTrack
AddTrackArgument(track) ==
    [name |-> track.name, segments |-> track.segments, stats |-> track.stats]

\* the readings of Date.now() of n consecutive calls, from the present on
ClockReadings(n) ==
    {r \in [1..n -> clock..MaxClock] : \A i \in 1..n - 1 : r[i] <= r[i + 1]}

Toast(title, description, variant) ==
    [title |-> title, description |-> description, variant |-> variant]

----------------------------------------------------------------------------
(* Photo uploader and the photos collection *)

MaxBatches == 1     \* batches of files handed to the photo uploader in one session

\* the default value of the acceptedFormats prop
PhotoAcceptedFormats == {".jpg", ".jpeg", ".png", ".heic", ".webp"}
AcceptedFormatsText == ".jpg, .jpeg, .png, .heic, .webp"

\* 50 * 1024 * 1024
MaxPhotoSize == 50 * 1024 * 1024

\* what exifr.parse does on the content of a file: it throws, finds no EXIF block
\* (undefined), or returns the tags
ExifThrows == [throws |-> TRUE, data |-> None]
ExifAbsent == [throws |-> FALSE, data |-> None]
ExifTags ==
    [throws |-> FALSE,
     data |-> Some([latitude |-> Some(46), longitude |-> Some(7),
                    DateTimeOriginal |-> Some("1970-01-01T00:00:02Z")])]

fA == [name |-> <<"a", "jpg">>, type |-> "image/jpeg", size |-> 1048576,
       exif |-> ExifTags]
fNotes == [name |-> <<"notes", "txt">>, type |-> "text/plain", size |-> 12,
           exif |-> ExifThrows]
fC == [name |-> <<"c", "PNG">>, type |-> "image/png", size |-> 2048,
       exif |-> ExifAbsent]
fBig == [name |-> <<"big", "jpg">>, type |-> "image/jpeg", size |-> 52428801,
         exif |-> ExifTags]
fEdge == [name |-> <<"edge", "webp">>, type |-> "image/webp", size |-> 52428800,
          exif |-> ExifThrows]
fHeif == [name |-> <<"shot", "heif">>, type |-> "image/heif", size |-> 4096,
          exif |-> ExifAbsent]
fTyped == [name |-> <<"scan", "img">>, type |-> "image/heic", size |-> 4096,
           exif |-> ExifAbsent]

\* the batches of the model: one with an unsupported second file, one with a file
\* over the cap and one exactly at the cap, one with nothing acceptable, one with
\* two HEIF images
PhotoBatches == {<<fA, fNotes, fC>>, <<fBig, fEdge>>, <<fNotes>>, <<fHeif, fTyped>>}

InvalidFormatToast(file) ==
    Toast("Invalid file format",
          JoinName(file.name) \o " is not a supported image format. Accepted formats: "
              \o AcceptedFormatsText,
          "destructive")

FileTooLargeToast(file) ==
    Toast("File too large", JoinName(file.name) \o " exceeds the 50MB size limit",
          "destructive")

\* one iteration of validateFiles without the size check
ValidateFileFormatOnly(file) ==
    IF FileExtension(file) \notin PhotoAcceptedFormats
    THEN [toasts |-> <<InvalidFormatToast(file)>>, valid |-> <<>>]
    ELSE [toasts |-> <<>>, valid |-> <<file>>]

\* one iteration of the loop of validateFiles: the toast shown, the file kept
ValidateFile(file) ==
    IF FileExtension(file) \notin PhotoAcceptedFormats
    THEN [toasts |-> <<InvalidFormatToast(file)>>, valid |-> <<>>]
    ELSE IF file.size > MaxPhotoSize
    THEN [toasts |-> <<FileTooLargeToast(file)>>, valid |-> <<>>]
    ELSE [toasts |-> <<>>, valid |-> <<file>>]

\* validateFiles(files): its return value
RECURSIVE validateFiles(_)
validateFiles(files) ==
    IF files = <<>> THEN <<>>
    ELSE ValidateFile(Head(files)).valid \o validateFiles(Tail(files))

\* validateFiles(files): the toasts it shows, in order
RECURSIVE ValidationToasts(_)
ValidationToasts(files) ==
    IF files = <<>> THEN <<>>
    ELSE ValidateFile(Head(files)).toasts \o ValidationToasts(Tail(files))

\* extractPhotoMetadata after exifr.parse returned exifData
MetadataOf(exifData) ==
    [location |->
        IF exifData # None /\ Get(exifData).latitude # None
           /\ Get(exifData).longitude # None
        THEN Some([lat |-> Get(Get(exifData).latitude),
                   lon |-> Get(Get(exifData).longitude)])
        ELSE None,
     timestamp |->
        IF exifData # None /\ Truthy(Get(exifData).DateTimeOriginal)
        THEN Some(NewDate(Get(Get(exifData).DateTimeOriginal)))
        ELSE None]

\* how an awaited call ends
Resolved(value) == [kind |-> "resolved", value |-> value]
Rejected(value) == [kind |-> "rejected", value |-> value]

\* extractPhotoMetadata without its try/catch
extractPhotoMetadataNoCatch(file) ==
    IF file.exif.throws THEN Rejected("exif")
    ELSE Resolved(MetadataOf(file.exif.data))

\* extractPhotoMetadata(file): the catch returns the empty metadata
extractPhotoMetadata(file) ==
    IF file.exif.throws THEN Resolved([location |-> None, timestamp |-> None])
    ELSE Resolved(MetadataOf(file.exif.data))

\* fileToDataUrl(file) when the read succeeds
fileToDataUrl(file) == "data:" \o JoinName(file.name)

\* what createThumbnail(file, 200) resolves to: a data URL or null
ThumbnailOutcomes(file) == {None, Some("thumb:" \o JoinName(file.name))}

PhotoId(now, suffix) == <<"photo", now, suffix>>

\* the newPhoto literal of addMultiplePhotos; `thumbnailUrl || undefined`
NewPhoto(file, thumbnailUrl, now, suffix) ==
    [id |-> PhotoId(now, suffix),
     name |-> JoinName(file.name),
     dataUrl |-> fileToDataUrl(file),
     thumbnailUrl |-> IF Truthy(thumbnailUrl) THEN thumbnailUrl ELSE None,
     location |-> extractPhotoMetadata(file).value.location,
     timestamp |-> extractPhotoMetadata(file).value.timestamp,
     visible |-> TRUE,
     size |-> file.size]

\* no addPhoto call yet
NoAddCalls == [running |-> <<>>, started |-> 0]

\* createThumbnail is not called
NoThumbnail == [pc |-> "none"]

\* no handleFiles call yet
NoBatch ==
    [files |-> <<>>, validFiles |-> <<>>, next |-> 0, processedPhotos |-> <<>>,
     failures |-> 0, outcomes |-> <<>>, pc |-> "none"]

\* addMultiplePhotos(validFiles) up to its first await: setIsProcessing(true) and
\* an empty processedPhotos; `files` is the argument of the handleFiles call
addMultiplePhotos(files, validFiles) ==
    [files |-> files, validFiles |-> validFiles, next |-> 1, processedPhotos |-> <<>>,
     failures |-> 0, outcomes |-> <<>>, pc |-> "processing"]

\* the page hands addMultiplePhotos of its photos collection to the uploader as
\* the onPhotosUpload prop
onPhotosUpload(files, validFiles) == addMultiplePhotos(files, validFiles)

\* and the isProcessing flag of the collection as the isProcessing prop, which
\* disables the drop zone and the file input
UploaderEnabled == ~isProcessing

\* handleFiles returned at `if (validFiles.length === 0) return`
ReturnedWithoutUpload(files) ==
    [files |-> files, validFiles |-> <<>>, next |-> 0, processedPhotos |-> <<>>,
     failures |-> 0, outcomes |-> <<>>, pc |-> "returned"]

\* the image of the popup of a photo marker: src={photo.thumbnailUrl || photo.dataUrl}
PopupImageSrc(photo) == Or(photo.thumbnailUrl, Some(photo.dataUrl))

\* the image of a photo list entry: {photo.thumbnailUrl && <Image src=... />};
\* None when the entry shows no image
ListImageSrc(photo) == IF Truthy(photo.thumbnailUrl) THEN photo.thumbnailUrl ELSE None

\* processedPhotos.push(newPhoto), and the loop moves to the next file;
\* `outcomes` records how each iteration ended
PhotoPushed(batch, newPhoto) ==
    [batch EXCEPT !.processedPhotos = Append(@, newPhoto),
                  !.outcomes = Append(@, "ok"),
                  !.next = @ + 1]

\* an inner catch that would leave the loop
PhotoFailedAborts(batch) ==
    [batch EXCEPT !.failures = @ + 1,
                  !.outcomes = Append(@, "failed"),
                  !.next = Len(batch.validFiles) + 1]

\* the inner catch logs the error, and the loop moves to the next file
PhotoFailed(batch) ==
    [batch EXCEPT !.failures = @ + 1,
                  !.outcomes = Append(@, "failed"),
                  !.next = @ + 1]

\* `${validFiles.length} photo${validFiles.length > 1 ? 's' : ''} processed.`
ProcessedText(n) ==
    ToString(n) \o " photo" \o (IF n > 1 THEN "s" ELSE "") \o " processed."

----------------------------------------------------------------------------
(* The statistics aggregator applied to every bounded input *)

StatsIdle == segments = <<>> /\ stats = None
ParseIdle ==
    /\ gpx = EmptyDocument
    /\ fileName = None
    /\ parsed = Pending
SessionIdle ==
    /\ tracks = <<>>
    /\ isUploading = FALSE
    /\ uploadedFiles = <<>>
    /\ upload = None
    /\ handled = 0
PhotosIdle ==
    /\ photos = <<>>
    /\ isProcessing = FALSE
    /\ photoBatch = NoBatch
    /\ batches = 0
    /\ addCalls = NoAddCalls
    /\ thumb = NoThumbnail
ExportIdle ==
    /\ mapMounted = FALSE
    /\ isExporting = FALSE
    /\ controlsHidden = FALSE
    /\ downloads = <<>>
    /\ exports = 0
EditsIdle == edits = 0
SharedIdle == clock = 0 /\ toasts = <<>>

InitStats ==
    /\ \E pts \in SeqsUpTo(TrackPoints, MaxPoints) :
         \E lens \in Compositions(Len(pts)) : segments = Split(pts, lens)
    /\ stats = None
    /\ ParseIdle
    /\ SessionIdle
    /\ PhotosIdle
    /\ ExportIdle
    /\ EditsIdle
    /\ SharedIdle

CalculateTrackStats ==
    /\ stats = None
    /\ stats' = Some(calculateTrackStats(segments))
    /\ UNCHANGED <<segments, parseVars, sessionVars, photoVars, exportVars, editVars,
                   sharedVars>>

NextStats == CalculateTrackStats

SpecStats == InitStats /\ [][NextStats]_vars

\* the same aggregator over points that differ in position: the corners of a
\* 60-degree cell, three of them with an elevation, none with a timestamp
LatticePoints ==
    {[lat |-> 0, lon |-> 0, ele |-> Some(100), time |-> None],
     [lat |-> 0, lon |-> 60, ele |-> Some(150), time |-> None],
     [lat |-> 60, lon |-> 60, ele |-> Some(100), time |-> None],
     [lat |-> 60, lon |-> 0, ele |-> None, time |-> None]}

InitDistance ==
    /\ \E pts \in SeqsUpTo(LatticePoints, MaxPoints) :
         \E lens \in Compositions(Len(pts)) : segments = Split(pts, lens)
    /\ stats = None
    /\ ParseIdle
    /\ SessionIdle
    /\ PhotosIdle
    /\ ExportIdle
    /\ EditsIdle
    /\ SharedIdle

SpecDistance == InitDistance /\ [][NextStats]_vars

----------------------------------------------------------------------------
(* The normalizer applied to every bounded document *)

InitParse ==
    /\ gpx \in GpxDocuments
    /\ fileName \in FileNames
    /\ parsed = Pending
    /\ StatsIdle
    /\ SessionIdle
    /\ PhotosIdle
    /\ ExportIdle
    /\ EditsIdle
    /\ SharedIdle

\* the dynamic import of the parser library fails, or window is undefined
ParserUnavailable ==
    /\ parsed.kind = "pending"
    /\ parsed' = Thrown(ParserNotAvailable)
    /\ UNCHANGED <<gpx, fileName, statsVars, sessionVars, photoVars, exportVars,
                   editVars, sharedVars>>

ParseGPXString ==
    /\ parsed.kind = "pending"
    /\ \E now \in 0..MaxClock : parsed' = parseGPXString(gpx, fileName, now)
    /\ UNCHANGED <<gpx, fileName, statsVars, sessionVars, photoVars, exportVars,
                   editVars, sharedVars>>

NextParse == ParserUnavailable \/ ParseGPXString

SpecParse == InitParse /\ [][NextParse]_vars

----------------------------------------------------------------------------
(* The session: GPX uploads and the tracks collection *)

Init ==
    /\ SessionIdle
    /\ SharedIdle
    /\ StatsIdle
    /\ ParseIdle
    /\ PhotosIdle
    /\ ExportIdle
    /\ EditsIdle

\* time passes
Tick ==
    /\ clock < MaxClock
    /\ clock' = clock + 1
    /\ UNCHANGED <<tracks, isUploading, uploadedFiles, upload, handled, toasts>>
    /\ UNCHANGED <<statsVars, parseVars, photoVars, exportVars, editVars>>

\* handleFile on a file whose extension is not accepted
HandleFileRejected ==
    /\ ~isUploading
    /\ handled < MaxUploads
    /\ \E file \in GpxFiles :
         /\ FileExtension(file) \notin GpxAcceptedFormats
         /\ toasts' = Append(toasts,
                Toast("Invalid file format",
                      "Please upload a GPX file. Accepted formats: .gpx", "destructive"))
    /\ handled' = handled + 1
    /\ UNCHANGED <<tracks, clock, isUploading, uploadedFiles, upload>>
    /\ UNCHANGED <<statsVars, parseVars, photoVars, exportVars, editVars>>

\* handleFile on an accepted file, up to the await of onFileUpload
HandleFileAccepted ==
    /\ ~isUploading
    /\ handled < MaxUploads
    /\ \E file \in GpxFiles :
         /\ FileExtension(file) \in GpxAcceptedFormats
         /\ upload' = Some(file)
    /\ isUploading' = TRUE
    /\ handled' = handled + 1
    /\ UNCHANGED <<tracks, clock, uploadedFiles, toasts>>
    /\ UNCHANGED <<statsVars, parseVars, photoVars, exportVars, editVars>>

\* the Tracks handleFileUpload adds for the parsed tracks: one addTrack each
AddedTracks(parsedTracks, readings, suffixes) ==
    [i \in 1..Len(parsedTracks) |->
        addTrack(AddTrackArgument(parsedTracks[i]), readings[i], suffixes[i])]

\* parseGPXFile(file): the library may fail before the normalizer runs
parseGPXFile(file, now, libraryFails) ==
    IF libraryFails THEN Thrown(ParserNotAvailable)
    ELSE parseGPXString(file.doc, Some(JoinName(file.name)), now)

\* the end of handleFile after onFileUpload resolved with the parsed tracks
UploadResolved(file, parsedTracks) ==
    /\ \E readings \in ClockReadings(Len(parsedTracks)),
          suffixes \in [1..Len(parsedTracks) -> RandomSuffixes] :
         /\ tracks' = tracks \o AddedTracks(parsedTracks, readings, suffixes)
         /\ clock' = readings[Len(parsedTracks)]
    /\ uploadedFiles' = Append(uploadedFiles, file)
    /\ toasts' = Append(toasts,
           Toast("File uploaded successfully",
                 JoinName(file.name) \o " has been processed.", "default"))

\* a catch branch that would also record the file
UploadRejectedRecordsFile(message) ==
    /\ toasts' = Append(toasts, Toast("Upload failed", message, "destructive"))
    /\ uploadedFiles' = Append(uploadedFiles, Get(upload))
    /\ UNCHANGED tracks

\* the end of handleFile after onFileUpload rejected with an error
UploadRejected(message) ==
    /\ toasts' = Append(toasts, Toast("Upload failed", message, "destructive"))
    /\ UNCHANGED <<tracks, uploadedFiles>>

\* what handleFile does with the outcome of parseGPXFile
UploadOutcome(file, res, wanted) ==
    /\ res.kind = wanted
    /\ IF res.kind = "ok" THEN UploadResolved(file, res.tracks)
       ELSE UploadRejected(res.message) /\ UNCHANGED clock

\* onFileUpload resolves: handleFileUpload added every parsed Track, and
\* handleFile records the file and reports success
UploadSucceeds ==
    /\ upload # None
    /\ UploadOutcome(Get(upload), parseGPXFile(Get(upload), clock, FALSE), "ok")
    /\ isUploading' = FALSE
    /\ upload' = None
    /\ UNCHANGED <<handled, statsVars, parseVars, photoVars, exportVars, editVars>>

\* onFileUpload rejects: parseGPXFile threw, handleFileUpload rethrew, and
\* handleFile reports the failure
UploadFails ==
    /\ upload # None
    /\ \E libraryFails \in BOOLEAN :
         UploadOutcome(Get(upload), parseGPXFile(Get(upload), clock, libraryFails), "error")
    /\ isUploading' = FALSE
    /\ upload' = None
    /\ UNCHANGED <<handled, statsVars, parseVars, photoVars, exportVars, editVars>>

\* a removal that would cut the list at the Track
removeTrackAndRest(prev, trackId) ==
    LET first == CHOOSE i \in 1..Len(prev) :
                    prev[i].id = trackId /\ \A j \in 1..i - 1 : prev[j].id # trackId
    IN SubSeq(prev, 1, first - 1)

\* prev.filter(t => t.id !== trackId)
removeTrack(prev, trackId) == SelectSeq(prev, LAMBDA t : t.id # trackId)

\* removeTrack(trackId), from the remove button of a listed track
RemoveTrack ==
    /\ \E k \in 1..Len(tracks) : tracks' = removeTrack(tracks, tracks[k].id)
    /\ UNCHANGED <<clock, isUploading, uploadedFiles, upload, handled, toasts>>
    /\ UNCHANGED <<statsVars, parseVars, photoVars, exportVars, editVars>>

\* { ...track.style, ...style }
MergeStyle(trackStyle, style) ==
    [field \in DOMAIN trackStyle |->
        IF field \in DOMAIN style THEN style[field] ELSE trackStyle[field]]

\* an update that would start again from the default style
updateTrackStyleFromDefault(prev, trackId, style) ==
    [i \in 1..Len(prev) |->
        IF prev[i].id = trackId
        THEN [prev[i] EXCEPT !.style = MergeStyle(DEFAULT_STYLE, style)]
        ELSE prev[i]]

\* prev.map(track => track.id === trackId ? { ...track, style: {...} } : track)
updateTrackStyle(prev, trackId, style) ==
    [i \in 1..Len(prev) |->
        IF prev[i].id = trackId
        THEN [prev[i] EXCEPT !.style = MergeStyle(@, style)]
        ELSE prev[i]]

\* prev.map(track => track.id === trackId ? { ...track, visible: !track.visible } : track)
toggleTrackVisibility(prev, trackId) ==
    [i \in 1..Len(prev) |->
        IF prev[i].id = trackId
        THEN [prev[i] EXCEPT !.visible = ~@]
        ELSE prev[i]]

\* the partial styles the controls of the track customizer send: a preset
\* colour, a width of the slider, a line style
StylePatches == {[color |-> "#3182CE"], [width |-> 5], [lineStyle |-> "dashed"]}

\* onUpdateTrackStyle(track.id, style), from a control of a listed track
UpdateTrackStyle ==
    /\ edits < MaxEdits
    /\ \E k \in 1..Len(tracks), style \in StylePatches :
         tracks' = updateTrackStyle(tracks, tracks[k].id, style)
    /\ edits' = edits + 1
    /\ UNCHANGED <<clock, isUploading, uploadedFiles, upload, handled, toasts>>
    /\ UNCHANGED <<statsVars, parseVars, photoVars, exportVars>>

\* onToggleVisibility(track.id), from the eye button of a listed track
ToggleTrackVisibility ==
    /\ edits < MaxEdits
    /\ \E k \in 1..Len(tracks) :
         tracks' = toggleTrackVisibility(tracks, tracks[k].id)
    /\ edits' = edits + 1
    /\ UNCHANGED <<clock, isUploading, uploadedFiles, upload, handled, toasts>>
    /\ UNCHANGED <<statsVars, parseVars, photoVars, exportVars>>

\* clearAllTracks, from the button shown while there are tracks
ClearAllTracks ==
    /\ Len(tracks) > 0
    /\ tracks' = <<>>
    /\ UNCHANGED <<clock, isUploading, uploadedFiles, upload, handled, toasts>>
    /\ UNCHANGED <<statsVars, parseVars, photoVars, exportVars, editVars>>

\* removeFile(index) of the uploaded-files list
RemoveFile ==
    /\ \E index \in 1..Len(uploadedFiles) :
         uploadedFiles' = [i \in 1..Len(uploadedFiles) - 1 |->
                             IF i < index THEN uploadedFiles[i] ELSE uploadedFiles[i + 1]]
    /\ UNCHANGED <<tracks, clock, isUploading, upload, handled, toasts>>
    /\ UNCHANGED <<statsVars, parseVars, photoVars, exportVars, editVars>>

Next ==
    \/ Tick
    \/ HandleFileRejected
    \/ HandleFileAccepted
    \/ UploadSucceeds
    \/ UploadFails
    \/ RemoveTrack
    \/ ClearAllTracks
    \/ RemoveFile

Spec == Init /\ [][Next]_vars

RideFile == CHOOSE file \in GpxFiles : file.name = <<"ride", "gpx">>

\* the toasts of n files rejected by handleFile for their extension
RejectedToasts(n) ==
    [i \in 1..n |->
        Toast("Invalid file format",
              "Please upload a GPX file. Accepted formats: .gpx", "destructive")]

\* the session after ride.gpx was uploaded in the first millisecond and every
\* file handed over since was rejected for its extension, one upload left
InitTracks ==
    /\ \E suffixes \in [1..2 -> RandomSuffixes] :
         tracks = AddedTracks(parseGPXFile(RideFile, 0, FALSE).tracks, <<0, 0>>, suffixes)
    /\ isUploading = FALSE
    /\ uploadedFiles = <<RideFile>>
    /\ upload = None
    /\ handled = MaxUploads - 1
    /\ clock = 0
    /\ toasts = <<Toast("File uploaded successfully", "ride.gpx has been processed.",
                        "default")>> \o RejectedToasts(MaxUploads - 2)
    /\ StatsIdle
    /\ ParseIdle
    /\ PhotosIdle
    /\ ExportIdle
    /\ EditsIdle

\* the session with the controls of the track customizer
NextTracks ==
    \/ HandleFileAccepted
    \/ UploadSucceeds
    \/ UploadFails
    \/ UpdateTrackStyle
    \/ ToggleTrackVisibility
    \/ RemoveTrack
    \/ ClearAllTracks

SpecTracks == InitTracks /\ [][NextTracks]_vars

----------------------------------------------------------------------------
(* The photo uploader: batches of files and the photos collection *)

\* handleFiles on a batch of which no file passes validateFiles
HandleFilesAllRejected ==
    /\ UploaderEnabled
    /\ batches < MaxBatches
    /\ \E files \in PhotoBatches :
         /\ validateFiles(files) = <<>>
         /\ toasts' = toasts \o ValidationToasts(files)
         /\ photoBatch' = ReturnedWithoutUpload(files)
    /\ batches' = batches + 1
    /\ UNCHANGED <<photos, isProcessing, clock>>
    /\ UNCHANGED <<addCalls, thumb>>
    /\ UNCHANGED <<statsVars, parseVars, sessionVars, exportVars, editVars>>

\* handleFiles on a batch with valid files, up to the first await of
\* addMultiplePhotos
HandleFiles ==
    /\ UploaderEnabled
    /\ batches < MaxBatches
    /\ \E files \in PhotoBatches :
         /\ validateFiles(files) # <<>>
         /\ toasts' = toasts \o ValidationToasts(files)
         /\ photoBatch' = onPhotosUpload(files, validateFiles(files))
    /\ isProcessing' = TRUE
    /\ batches' = batches + 1
    /\ UNCHANGED <<photos, clock>>
    /\ UNCHANGED <<addCalls, thumb>>
    /\ UNCHANGED <<statsVars, parseVars, sessionVars, exportVars, editVars>>

\* one iteration of the loop of addMultiplePhotos that pushes a photo
ProcessFileSucceeds ==
    /\ photoBatch.pc = "processing"
    /\ photoBatch.next <= Len(photoBatch.validFiles)
    /\ extractPhotoMetadata(photoBatch.validFiles[photoBatch.next]).kind = "resolved"
    /\ \E now \in clock..MaxClock, suffix \in RandomSuffixes :
         \E thumbnailUrl \in ThumbnailOutcomes(photoBatch.validFiles[photoBatch.next]) :
           /\ photoBatch' =
                 PhotoPushed(photoBatch,
                             NewPhoto(photoBatch.validFiles[photoBatch.next],
                                      thumbnailUrl, now, suffix))
           /\ clock' = now
    /\ UNCHANGED <<photos, isProcessing, batches, toasts>>
    /\ UNCHANGED <<addCalls, thumb>>
    /\ UNCHANGED <<statsVars, parseVars, sessionVars, exportVars, editVars>>

\* one iteration of the loop in which an awaited call rejects (fileToDataUrl
\* may, for any file): the inner catch logs the error and the loop goes on
ProcessFileFails ==
    /\ photoBatch.pc = "processing"
    /\ photoBatch.next <= Len(photoBatch.validFiles)
    /\ photoBatch' = PhotoFailed(photoBatch)
    /\ UNCHANGED <<photos, isProcessing, batches, clock, toasts>>
    /\ UNCHANGED <<addCalls, thumb>>
    /\ UNCHANGED <<statsVars, parseVars, sessionVars, exportVars, editVars>>

\* a return that sets the collection from the photos read when the call began
\* (none, in every batch of the model) instead of the collection as it is
AddMultiplePhotosReturnsStale ==
    /\ photoBatch.pc = "processing"
    /\ photoBatch.next > Len(photoBatch.validFiles)
    /\ photos' = IF Len(photoBatch.processedPhotos) > 0
                 THEN photoBatch.processedPhotos
                 ELSE photos
    /\ isProcessing' = FALSE
    /\ toasts' = Append(toasts,
           Toast("Photos uploaded successfully",
                 ProcessedText(Len(photoBatch.validFiles)), "default"))
    /\ photoBatch' = [photoBatch EXCEPT !.pc = "returned"]
    /\ UNCHANGED <<batches, clock>>
    /\ UNCHANGED <<addCalls, thumb>>
    /\ UNCHANGED <<statsVars, parseVars, sessionVars, exportVars, editVars>>

\* the loop is over: addMultiplePhotos appends the processed photos, clears the
\* flag and returns, and handleFiles reports success
AddMultiplePhotosReturns ==
    /\ photoBatch.pc = "processing"
    /\ photoBatch.next > Len(photoBatch.validFiles)
    /\ photos' = IF Len(photoBatch.processedPhotos) > 0
                 THEN photos \o photoBatch.processedPhotos
                 ELSE photos
    /\ isProcessing' = FALSE
    /\ toasts' = Append(toasts,
           Toast("Photos uploaded successfully",
                 ProcessedText(Len(photoBatch.validFiles)), "default"))
    /\ photoBatch' = [photoBatch EXCEPT !.pc = "returned"]
    /\ UNCHANGED <<batches, clock>>
    /\ UNCHANGED <<addCalls, thumb>>
    /\ UNCHANGED <<statsVars, parseVars, sessionVars, exportVars, editVars>>

\* removePhoto(photoId)
RemovePhoto ==
    /\ \E k \in 1..Len(photos) :
         LET photoId == photos[k].id
             Keep(ph) == ph.id # photoId
         IN photos' = SelectSeq(photos, Keep)
    /\ UNCHANGED <<isProcessing, photoBatch, batches, clock, toasts>>
    /\ UNCHANGED <<addCalls, thumb>>
    /\ UNCHANGED <<statsVars, parseVars, sessionVars, exportVars, editVars>>

\* togglePhotoVisibility(photoId)
TogglePhotoVisibility ==
    /\ \E k \in 1..Len(photos) :
         LET photoId == photos[k].id IN
         photos' = [i \in 1..Len(photos) |->
                      IF photos[i].id = photoId
                      THEN [photos[i] EXCEPT !.visible = ~@]
                      ELSE photos[i]]
    /\ UNCHANGED <<isProcessing, photoBatch, batches, clock, toasts>>
    /\ UNCHANGED <<addCalls, thumb>>
    /\ UNCHANGED <<statsVars, parseVars, sessionVars, exportVars, editVars>>

\* clearAllPhotos
ClearAllPhotos ==
    /\ photos' = <<>>
    /\ UNCHANGED <<isProcessing, photoBatch, batches, clock, toasts>>
    /\ UNCHANGED <<addCalls, thumb>>
    /\ UNCHANGED <<statsVars, parseVars, sessionVars, exportVars, editVars>>

NextPhotos ==
    \/ HandleFilesAllRejected
    \/ HandleFiles
    \/ ProcessFileSucceeds
    \/ ProcessFileFails
    \/ AddMultiplePhotosReturns
    \/ RemovePhoto
    \/ TogglePhotoVisibility
    \/ ClearAllPhotos

SpecPhotos == Init /\ [][NextPhotos]_vars

----------------------------------------------------------------------------
(* createThumbnail: one call, from its start to the events of its reader, its
   image and its timer.  The 5000 ms of the timer are not counted: the timer
   callback runs at some moment after the timer was set unless the timer was
   cleared before. *)

ThumbnailMaxSize == 200     \* the maxSize argument

\* a promise that is not settled
Unsettled == [kind |-> "pending"]

\* a resolve that replaces the value of a settled promise
ResolveOverwrites(promise, value) == Resolved(value)

\* resolve(value): settles the promise, and does nothing to a settled one
Resolve(promise, value) ==
    IF promise.kind = "pending" THEN Resolved(value) ELSE promise

\* the isHeic test of convertHeicToJpeg
IsHeic(file) ==
    \/ ToLowerCase(file.name[Len(file.name)]) \in {"heic", "heif"}
    \/ file.type \in {"image/heic", "image/heif"}

\* what convertHeicToJpeg(file) resolves to: the file itself, or for a HEIC
\* file the JPEG the converter made; it never rejects
convertHeicToJpeg(file) ==
    IF IsHeic(file) THEN {file, [file EXCEPT !.type = "image/jpeg"]} ELSE {file}

\* the files createThumbnail is called with, and the width and height of the
\* decoded image (sizes for which the divisions of the resize are exact)
ThumbnailFiles == {fA, fC, fHeif, fTyped}
ImageSizes == {<<400, 200>>, <<200, 400>>, <<800, 600>>, <<100, 50>>, <<200, 200>>}

\* the width and height of the canvas
CanvasSize(width, height, maxSize) ==
    IF width > height
    THEN IF width > maxSize
         THEN <<maxSize, (height * maxSize) \div width>>
         ELSE <<width, height>>
    ELSE IF height > maxSize
         THEN <<(width * maxSize) \div height, maxSize>>
         ELSE <<width, height>>

\* canvas.toDataURL('image/jpeg', 0.8) of the image drawn on the canvas
ThumbnailDataUrl(file, size) ==
    [image |-> JoinName(file.name), type |-> "image/jpeg",
     width |-> CanvasSize(size[1], size[2], ThumbnailMaxSize)[1],
     height |-> CanvasSize(size[1], size[2], ThumbnailMaxSize)[2]]

\* createThumbnail(file, 200) entered; `size` is what the image will report
\* once decoded
ThumbnailCall(file, size) ==
    [pc |-> "called", file |-> file, processedFile |-> file, size |-> size,
     timer |-> "unset", promise |-> Unsettled]

\* cleanup(): if (timeoutId) clearTimeout(timeoutId)
Cleanup(timer) == IF timer = "armed" THEN "cleared" ELSE timer

InitThumbnail ==
    /\ thumb \in {ThumbnailCall(file, size) : file \in ThumbnailFiles, size \in ImageSizes}
    /\ photos = <<>>
    /\ isProcessing = FALSE
    /\ photoBatch = NoBatch
    /\ batches = 0
    /\ addCalls = NoAddCalls
    /\ StatsIdle
    /\ ParseIdle
    /\ SessionIdle
    /\ ExportIdle
    /\ EditsIdle
    /\ SharedIdle

\* window is undefined, or readAsDataURL (or anything else in the outer try)
\* throws: resolve(null)
CreateThumbnailGivesUp ==
    /\ thumb.pc = "called"
    /\ thumb' = [thumb EXCEPT !.pc = "ended", !.promise = Resolve(@, None)]
    /\ UNCHANGED <<photos, isProcessing, photoBatch, batches, addCalls>>
    /\ UNCHANGED <<statsVars, parseVars, sessionVars, exportVars, editVars, sharedVars>>

\* the file is converted if it is HEIC and the reader starts reading it
CreateThumbnail ==
    /\ thumb.pc = "called"
    /\ \E processedFile \in convertHeicToJpeg(thumb.file) :
         thumb' = [thumb EXCEPT !.pc = "reading", !.processedFile = processedFile]
    /\ UNCHANGED <<photos, isProcessing, photoBatch, batches, addCalls>>
    /\ UNCHANGED <<statsVars, parseVars, sessionVars, exportVars, editVars, sharedVars>>

\* reader.onerror: resolve(null)
ReaderError ==
    /\ thumb.pc = "reading"
    /\ thumb' = [thumb EXCEPT !.pc = "ended", !.promise = Resolve(@, None)]
    /\ UNCHANGED <<photos, isProcessing, photoBatch, batches, addCalls>>
    /\ UNCHANGED <<statsVars, parseVars, sessionVars, exportVars, editVars, sharedVars>>

\* reader.onload: an invalid result resolves null; otherwise the image is
\* created, the timer is set and img.src starts the decoding
ReaderLoad ==
    /\ thumb.pc = "reading"
    /\ \E valid \in BOOLEAN :
         thumb' = IF valid
                  THEN [thumb EXCEPT !.pc = "decoding", !.timer = "armed"]
                  ELSE [thumb EXCEPT !.pc = "ended", !.promise = Resolve(@, None)]
    /\ UNCHANGED <<photos, isProcessing, photoBatch, batches, addCalls>>
    /\ UNCHANGED <<statsVars, parseVars, sessionVars, exportVars, editVars, sharedVars>>

\* img.onload: cleanup(), then the thumbnail is drawn and resolved; without a
\* canvas context, or when drawing throws, resolve(null)
ImgLoad ==
    /\ thumb.pc = "decoding"
    /\ \E drawn \in BOOLEAN :
         thumb' = [thumb EXCEPT
                     !.pc = "loaded",
                     !.timer = Cleanup(@),
                     !.promise =
                         Resolve(@, IF drawn
                                    THEN Some(ThumbnailDataUrl(thumb.file, thumb.size))
                                    ELSE None)]
    /\ UNCHANGED <<photos, isProcessing, photoBatch, batches, addCalls>>
    /\ UNCHANGED <<statsVars, parseVars, sessionVars, exportVars, editVars, sharedVars>>

\* img.onerror: cleanup(), resolve(null)
ImgError ==
    /\ thumb.pc = "decoding"
    /\ thumb' = [thumb EXCEPT !.pc = "failed", !.timer = Cleanup(@),
                              !.promise = Resolve(@, None)]
    /\ UNCHANGED <<photos, isProcessing, photoBatch, batches, addCalls>>
    /\ UNCHANGED <<statsVars, parseVars, sessionVars, exportVars, editVars, sharedVars>>

\* the callback of setTimeout: resolve(null); the image goes on decoding
TimeoutFires ==
    /\ thumb.pc # "none"
    /\ thumb.timer = "armed"
    /\ thumb' = [thumb EXCEPT !.timer = "fired", !.promise = Resolve(@, None)]
    /\ UNCHANGED <<photos, isProcessing, photoBatch, batches, addCalls>>
    /\ UNCHANGED <<statsVars, parseVars, sessionVars, exportVars, editVars, sharedVars>>

NextThumbnail ==
    \/ CreateThumbnailGivesUp
    \/ CreateThumbnail
    \/ ReaderError
    \/ ReaderLoad
    \/ ImgLoad
    \/ ImgError
    \/ TimeoutFires

SpecThumbnail == InitThumbnail /\ [][NextThumbnail]_vars

\* a timer that is set and not cleared runs its callback
FairSpecThumbnail == SpecThumbnail /\ WF_vars(TimeoutFires)

----------------------------------------------------------------------------
(* usePhotos called directly: addPhoto next to a batch in flight.  The hook
   returns addPhoto and addMultiplePhotos, and neither looks at the flag. *)

MaxAddPhotos == 1   \* addPhoto calls of one session

\* a batch is in flight: the state after handleFiles on a batch with valid files
InitHook ==
    /\ \E files \in PhotoBatches :
         /\ validateFiles(files) # <<>>
         /\ toasts = ValidationToasts(files)
         /\ photoBatch = onPhotosUpload(files, validateFiles(files))
    /\ isProcessing = TRUE
    /\ batches = 1
    /\ photos = <<>>
    /\ addCalls = NoAddCalls
    /\ thumb = NoThumbnail
    /\ clock = 0
    /\ StatsIdle
    /\ ParseIdle
    /\ SessionIdle
    /\ ExportIdle
    /\ EditsIdle

\* addPhoto(file) up to its first await: setIsProcessing(true); c.PNG is the
\* file of every call
AddPhoto ==
    /\ addCalls.started < MaxAddPhotos
    /\ \E file \in {fC} :
         addCalls' = [running |-> Append(addCalls.running, file),
                      started |-> addCalls.started + 1]
    /\ isProcessing' = TRUE
    /\ UNCHANGED <<photos, photoBatch, batches, thumb, clock, toasts>>
    /\ UNCHANGED <<statsVars, parseVars, sessionVars, exportVars, editVars>>

\* an addPhoto call appends its photo and returns it; finally
\* setIsProcessing(false)
AddPhotoSucceeds ==
    /\ \E k \in 1..Len(addCalls.running), suffix \in RandomSuffixes :
         \E thumbnailUrl \in ThumbnailOutcomes(addCalls.running[k]) :
           /\ photos' = Append(photos,
                               NewPhoto(addCalls.running[k], thumbnailUrl, clock, suffix))
           /\ addCalls' = [addCalls EXCEPT !.running =
                               SubSeq(@, 1, k - 1) \o SubSeq(@, k + 1, Len(@))]
    /\ isProcessing' = FALSE
    /\ UNCHANGED <<photoBatch, batches, thumb, clock, toasts>>
    /\ UNCHANGED <<statsVars, parseVars, sessionVars, exportVars, editVars>>

\* an awaited call of addPhoto rejects: the catch returns null; finally
\* setIsProcessing(false)
AddPhotoFails ==
    /\ \E k \in 1..Len(addCalls.running) :
         addCalls' = [addCalls EXCEPT !.running =
                         SubSeq(@, 1, k - 1) \o SubSeq(@, k + 1, Len(@))]
    /\ isProcessing' = FALSE
    /\ UNCHANGED <<photos, photoBatch, batches, thumb, clock, toasts>>
    /\ UNCHANGED <<statsVars, parseVars, sessionVars, exportVars, editVars>>

\* the calls of the hook, and the photo list acting on the collection while the
\* batch is in flight
NextHook ==
    \/ ProcessFileSucceeds
    \/ ProcessFileFails
    \/ AddMultiplePhotosReturns
    \/ AddPhoto
    \/ AddPhotoSucceeds
    \/ AddPhotoFails
    \/ photoBatch.pc = "processing" /\ RemovePhoto
    \/ photoBatch.pc = "processing" /\ TogglePhotoVisibility
    \/ photoBatch.pc = "processing" /\ ClearAllPhotos

SpecHook == InitHook /\ [][NextHook]_vars

----------------------------------------------------------------------------
(* Export of the map as an image *)

MaxExports == 2     \* export requests of one session

\* new Date().toISOString().split('T')[0], for the clock readings of the model
IsoDate(now) == IF now < 86400000 THEN "1970-01-01" ELSE "1970-01-02"

\* link.download
DownloadName(now) == "gpx-track-map-" \o IsoDate(now) \o ".png"

\* the messages of the catch of handleExport: exportMap throws an Error when the
\* map container is missing, before it hides the controls; the snapshot library
\* may fail to load or reject with something that is not an Error
ExportErrorMessages == {"Map container not found", "Failed to export the map"}

\* the button is rendered with disabled={tracks.length === 0} and is disabled
\* while exporting
ExportButtonEnabled == Len(tracks) > 0 /\ ~isExporting

\* the same session, the map view still loading
InitExport == InitTracks

\* the dynamically loaded map view mounts and sets mapRef.current
MapMounts ==
    /\ ~mapMounted
    /\ mapMounted' = TRUE
    /\ UNCHANGED <<isExporting, controlsHidden, downloads, exports, clock, toasts>>
    /\ UNCHANGED <<statsVars, parseVars, sessionVars, photoVars, editVars>>

\* an early return that would come after setIsExporting(true)
NotReadyAfterFlag ==
    /\ toasts' = Append(toasts,
           Toast("Export failed", "Map is not ready for export", "destructive"))
    /\ isExporting' = TRUE

\* if (!mapRef.current) { toast(...); return; }
NotReady ==
    /\ toasts' = Append(toasts,
           Toast("Export failed", "Map is not ready for export", "destructive"))
    /\ UNCHANGED isExporting

\* handleExport while mapRef.current is not set
HandleExportNotReady ==
    /\ ExportButtonEnabled
    /\ exports < MaxExports
    /\ ~mapMounted
    /\ NotReady
    /\ exports' = exports + 1
    /\ UNCHANGED <<mapMounted, controlsHidden, downloads, clock>>
    /\ UNCHANGED <<statsVars, parseVars, sessionVars, photoVars, editVars>>

\* handleExport on a mounted map, up to the await of exportMap
HandleExport ==
    /\ ExportButtonEnabled
    /\ exports < MaxExports
    /\ mapMounted
    /\ isExporting' = TRUE
    /\ exports' = exports + 1
    /\ UNCHANGED <<mapMounted, controlsHidden, downloads, clock, toasts>>
    /\ UNCHANGED <<statsVars, parseVars, sessionVars, photoVars, editVars>>

\* exportMap has loaded the snapshot library and hides every .leaflet-control of
\* the container before it awaits the snapshot
ExportMapHidesControls ==
    /\ isExporting
    /\ ~controlsHidden
    /\ controlsHidden' = TRUE
    /\ UNCHANGED <<mapMounted, isExporting, downloads, exports, clock, toasts>>
    /\ UNCHANGED <<statsVars, parseVars, sessionVars, photoVars, editVars>>

\* exportMap resolved with the image, its finally having restored the controls:
\* the download link is clicked, success is reported, and the finally of
\* handleExport clears the flag
ExportSucceeds ==
    /\ isExporting
    /\ controlsHidden
    /\ downloads' = Append(downloads, DownloadName(clock))
    /\ toasts' = Append(toasts,
           Toast("Export successful", "Your map has been downloaded as a PNG image",
                 "default"))
    /\ isExporting' = FALSE
    /\ controlsHidden' = FALSE
    /\ UNCHANGED <<mapMounted, exports, clock>>
    /\ UNCHANGED <<statsVars, parseVars, sessionVars, photoVars, editVars>>

\* exportMap without the finally around the snapshot
ExportFailsControlsStayHidden ==
    /\ isExporting
    /\ \E message \in ExportErrorMessages :
         /\ controlsHidden => message # "Map container not found"
         /\ toasts' = Append(toasts, Toast("Export failed", message, "destructive"))
    /\ isExporting' = FALSE
    /\ UNCHANGED controlsHidden
    /\ UNCHANGED <<mapMounted, downloads, exports, clock>>
    /\ UNCHANGED <<statsVars, parseVars, sessionVars, photoVars, editVars>>

\* exportMap rejected, before the controls were hidden (no container, the
\* library does not load) or after (the snapshot throws, and the finally of
\* exportMap restores the controls): the catch reports the failure, the finally
\* of handleExport clears the flag
ExportFails ==
    /\ isExporting
    /\ \E message \in ExportErrorMessages :
         /\ controlsHidden => message # "Map container not found"
         /\ toasts' = Append(toasts, Toast("Export failed", message, "destructive"))
    /\ isExporting' = FALSE
    /\ controlsHidden' = FALSE
    /\ UNCHANGED <<mapMounted, downloads, exports, clock>>
    /\ UNCHANGED <<statsVars, parseVars, sessionVars, photoVars, editVars>>

NextExport ==
    \/ RemoveTrack
    \/ ClearAllTracks
    \/ MapMounts
    \/ HandleExportNotReady
    \/ HandleExport
    \/ ExportMapHidesControls
    \/ ExportSucceeds
    \/ ExportFails

SpecExport == InitExport /\ [][NextExport]_vars

----------------------------------------------------------------------------
(* Claims about the statistics aggregator *)

PointAt(segs, ki) == segs[ki[1]].points[ki[2]]

\* the pairs of adjacent points of one segment, named by the later point
AdjacentPairs(segs) == {ki \in AllPoints(segs) : ki[2] > 1}
PrevOf(ki) == <<ki[1], ki[2] - 1>>

\* the pairs of adjacent points of one segment where both carry an elevation
ElevationPairs(segs) ==
    {ki \in AdjacentPairs(segs) :
        PointAt(segs, ki).ele # None /\ PointAt(segs, PrevOf(ki)).ele # None}

Delta(segs, ki) == Get(PointAt(segs, ki).ele) - Get(PointAt(segs, PrevOf(ki)).ele)

ExpectedGain(segs) ==
    SumSet(ElevationPairs(segs),
           [ki \in ElevationPairs(segs) |-> MathMax(Delta(segs, ki), 0)])

ExpectedLoss(segs) ==
    SumSet(ElevationPairs(segs),
           [ki \in ElevationPairs(segs) |-> MathMax(-Delta(segs, ki), 0)])

ElevationValues(segs) ==
    {Get(PointAt(segs, ki).ele) : ki \in {q \in AllPoints(segs) : PointAt(segs, q).ele # None}}

SetMin(S) == CHOOSE m \in S : \A x \in S : m <= x
SetMax(S) == CHOOSE m \in S : \A x \in S : m >= x

TheOnlyPoint(segs) == PointAt(segs, CHOOSE ki \in AllPoints(segs) : TRUE)

ElePoint(e) == [lat |-> 0, lon |-> 0, ele |-> e, time |-> None]

\* C7 (as stated): a track with exactly one point in total, whatever elevation or
\* timestamp it carries, has distance 0, elevationGain 0, elevationLoss 0 and
\* duration undefined.
C7_SinglePointDurationUndefined ==
    (stats # None /\ PointCount(segments) = 1) =>
        /\ Get(stats).distance = 0
        /\ Get(stats).elevationGain = 0
        /\ Get(stats).elevationLoss = 0
        /\ Get(stats).duration = None

\* C7 (amended): a track with exactly one point in total has distance 0,
\* elevationGain 0 and elevationLoss 0; its duration is undefined when the point
\* carries no timestamp and 0 when it carries one.
C7_SinglePointStats ==
    (stats # None /\ PointCount(segments) = 1) =>
        /\ Get(stats).distance = 0
        /\ Get(stats).elevationGain = 0
        /\ Get(stats).elevationLoss = 0
        /\ Get(stats).duration =
              IF TheOnlyPoint(segments).time = None THEN None ELSE Some(0)

C7_Witness ==
    /\ stats # None
    /\ PointCount(segments) = 1
    /\ TheOnlyPoint(segments).time # None
    /\ TheOnlyPoint(segments).ele # None

\* C8: elevation gain and loss accumulate only over adjacent points of the same
\* segment that both carry an elevation: a positive delta adds to the gain, the
\* absolute value of a negative or zero delta adds to the loss, every other pair
\* adds nothing; elevations [100, 150, 120] give gain 50 and loss 30.
C8_GainLossOverElevationPairs ==
    /\ stats # None =>
          /\ Get(stats).elevationGain = ExpectedGain(segments)
          /\ Get(stats).elevationLoss = ExpectedLoss(segments)
    /\ LET s == calculateTrackStats(
                    <<[points |-> <<ElePoint(Some(100)), ElePoint(Some(150)),
                                    ElePoint(Some(120))>>]>>)
       IN s.elevationGain = 50 /\ s.elevationLoss = 30

C8_Witness ==
    /\ stats # None
    /\ Get(stats).elevationGain > 0
    /\ ElevationPairs(segments) # AdjacentPairs(segments)

\* C9: minElevation and maxElevation are the minimum and the maximum over every
\* point of every segment that carries an elevation, neighbours or not; both are 0
\* when no point carries one, and neither is ever +Infinity or -Infinity.
C9_MinMaxOverAllPoints ==
    stats # None =>
        /\ ElevationValues(segments) = {} =>
              Get(stats).minElevation = 0 /\ Get(stats).maxElevation = 0
        /\ ElevationValues(segments) # {} =>
              /\ Get(stats).minElevation = SetMin(ElevationValues(segments))
              /\ Get(stats).maxElevation = SetMax(ElevationValues(segments))
        /\ Get(stats).minElevation \notin {Infinity, -Infinity}
        /\ Get(stats).maxElevation \notin {Infinity, -Infinity}

\* a point with an elevation in a segment of its own, next to points without one
C9_Witness ==
    /\ stats # None
    /\ ElevationPairs(segments) = {}
    /\ Cardinality(ElevationValues(segments)) = 2

C9_WitnessNoElevation ==
    stats # None /\ PointCount(segments) = MaxPoints /\ ElevationValues(segments) = {}

----------------------------------------------------------------------------
(* Claims about the normalizer *)

T == Len(gpx.tracks)
R == Len(gpx.routes)
W == Len(gpx.waypoints)

\* parseGPXString got past the library: it returned, or threw at its final check
NormalizationReached ==
    \/ parsed.kind = "ok"
    \/ parsed.kind = "error" /\ parsed.message = NoGeometryFound

Coordinates(points) == [i \in 1..Len(points) |-> <<points[i].lat, points[i].lon, points[i].ele>>]

RECURSIVE PointsOfSegments(_)
PointsOfSegments(segs) ==
    IF segs = <<>> THEN <<>> ELSE Head(segs).points \o PointsOfSegments(Tail(segs))

\* the emitted Track t is the one of source track i / of source route j
FromTrack(t, i) ==
    /\ t.id[1] = "track" /\ t.id[3] = i - 1
    /\ Coordinates(PointsOfSegments(t.segments)) = Coordinates(gpx.tracks[i].points)
FromRoute(t, j) ==
    /\ t.id[1] = "route" /\ t.id[3] = j - 1
    /\ Coordinates(PointsOfSegments(t.segments)) = Coordinates(gpx.routes[j].points)

WaypointTracks == {i \in 1..Len(parsed.tracks) : parsed.tracks[i].id[1] = "waypoints"}

\* C1: on a document with zero tracks, zero routes and zero waypoints
\* parseGPXString fails with an error and returns no Track list; it never returns
\* an empty list.
C1_NoGeometryFails ==
    /\ (parsed.kind # "pending" /\ T = 0 /\ R = 0 /\ W = 0) =>
          parsed.kind = "error" /\ parsed.tracks = <<>>
    /\ parsed.kind = "ok" => parsed.tracks # <<>>

C1_Witness ==
    /\ T = 0 /\ R = 0 /\ W = 0
    /\ parsed.kind = "error" /\ parsed.message = NoGeometryFound

\* C2: a document with T source tracks and R source routes, T + R > 0, yields
\* exactly T + R Tracks: one per source track in source order, then one per source
\* route in source order; tracks never suppress routes.
C2_TracksThenRoutes ==
    (NormalizationReached /\ T + R > 0) =>
        /\ parsed.kind = "ok"
        /\ Len(parsed.tracks) = T + R
        /\ \A i \in 1..T : FromTrack(parsed.tracks[i], i)
        /\ \A j \in 1..R : FromRoute(parsed.tracks[T + j], j)

C2_Witness ==
    /\ parsed.kind = "ok" /\ T = 1 /\ R = 1 /\ W = 1
    /\ gpx.tracks[1].points # gpx.routes[1].points

\* C3 (as stated): the synthetic waypoint Track is emitted exactly when the
\* document has at least one waypoint and no Track was emitted from source tracks.
C3_WaypointTrackIffNoSourceTracks ==
    NormalizationReached => ((WaypointTracks # {}) <=> (W > 0 /\ T = 0))

\* C3 (amended): the synthetic waypoint Track is emitted exactly when the document
\* has at least one waypoint and no Track was emitted from source tracks or from
\* routes; when emitted there is exactly one, and its single segment holds all
\* waypoints in source order.
C3_WaypointTrackIffNothingElse ==
    NormalizationReached =>
        /\ (WaypointTracks # {}) <=> (W > 0 /\ T = 0 /\ R = 0)
        /\ Cardinality(WaypointTracks) <= 1
        /\ \A i \in WaypointTracks :
              /\ Len(parsed.tracks[i].segments) = 1
              /\ Coordinates(parsed.tracks[i].segments[1].points)
                   = Coordinates(gpx.waypoints)

C3_Witness ==
    /\ parsed.kind = "ok" /\ W = 2 /\ gpx.waypoints[1] # gpx.waypoints[2]
    /\ WaypointTracks = {1}

\* C4: a document with only waypoints yields exactly one Track, named after the
\* source filename when one is given and "Waypoints" otherwise (an empty filename
\* counts as none).
C4_WaypointsOnlyName ==
    (NormalizationReached /\ T = 0 /\ R = 0 /\ W > 0) =>
        /\ parsed.kind = "ok"
        /\ Len(parsed.tracks) = 1
        /\ parsed.tracks[1].name =
              IF Truthy(fileName) THEN Get(fileName) ELSE "Waypoints"

C4_Witness ==
    /\ parsed.kind = "ok" /\ T = 0 /\ R = 0 /\ W > 0
    /\ fileName = Some("ride.gpx")
    /\ parsed.tracks[1].name = "ride.gpx"

\* the three-step name resolution (a name or filename is present when non-empty)
ResolvedName(name, file, ordinal) ==
    IF Truthy(name) THEN Get(name) ELSE IF Truthy(file) THEN Get(file) ELSE ordinal

\* C5: every Track emitted from a source track or a source route is named by the
\* source name if present, else the uploaded filename if present, else "Track N" /
\* "Route N" with N the 1-based index of the source item; the same three steps
\* apply to tracks and to routes.
C5_NameResolution ==
    parsed.kind = "ok" =>
        \A k \in 1..Len(parsed.tracks) :
            LET t == parsed.tracks[k] IN
            /\ t.id[1] = "track" =>
                  t.name = ResolvedName(gpx.tracks[t.id[3] + 1].name, fileName,
                                        "Track " \o ToString(t.id[3] + 1))
            /\ t.id[1] = "route" =>
                  t.name = ResolvedName(gpx.routes[t.id[3] + 1].name, fileName,
                                        "Route " \o ToString(t.id[3] + 1))

----------------------------------------------------------------------------
(* Claims about the collections of the session *)

UniqueIds(collection) ==
    \A i, j \in 1..Len(collection) : i # j => collection[i].id # collection[j].id

\* C6: in every reachable state no two Tracks of the tracks collection share an
\* id and no two Photos of the photos collection share an id (several tracks
\* added from one file within the same millisecond included).
C6_IdsUnique == UniqueIds(tracks) /\ UniqueIds(photos)

----------------------------------------------------------------------------
(* Claims about the photo uploader *)

\* a file passes validation: accepted extension, size within the cap
PassesValidation(file) ==
    /\ <<".", ToLowerCase(file.name[Len(file.name)])>> \in
          {<<".", "jpg">>, <<".", "jpeg">>, <<".", "png">>, <<".", "heic">>,
           <<".", "webp">>}
    /\ file.size <= 52428800

FailsValidation(file) == ~PassesValidation(file)

\* a rejection notification naming the file
NamesFile(toast, file) ==
    /\ toast.variant = "destructive"
    /\ toast.description \in
          {JoinName(file.name) \o " is not a supported image format. Accepted formats: "
               \o ".jpg, .jpeg, .png, .heic, .webp",
           JoinName(file.name) \o " exceeds the 50MB size limit"}

\* the toasts added by a step
NewToasts == SubSeq(toasts', Len(toasts) + 1, Len(toasts'))

\* the photos added by a step
NewPhotos == SubSeq(photos', Len(photos) + 1, Len(photos'))

\* the step hands a batch of files to the uploader
BatchHandedOver == batches' = batches + 1

\* the step ends the upload of a batch in which no file failed to process
BatchProcessed ==
    photoBatch.pc = "processing" /\ photoBatch'.pc = "returned" /\ photoBatch.failures = 0

\* every rejected file of the batch, in order, has its own notification
RejectionsReported(files) ==
    /\ Len(toasts') >= Len(toasts)
    /\ SubSeq(toasts', 1, Len(toasts)) = toasts
    /\ Len(NewToasts) = Len(SelectSeq(files, FailsValidation))
    /\ \A k \in 1..Len(NewToasts) :
         NamesFile(NewToasts[k], SelectSeq(files, FailsValidation)[k])

\* the photos created are those of the files that pass validation, in order
PhotosOfValidFiles(files) ==
    /\ Len(photos') >= Len(photos)
    /\ SubSeq(photos', 1, Len(photos)) = photos
    /\ Len(NewPhotos) = Len(SelectSeq(files, PassesValidation))
    /\ \A k \in 1..Len(NewPhotos) :
         /\ NewPhotos[k].name = JoinName(SelectSeq(files, PassesValidation)[k].name)
         /\ NewPhotos[k].size = SelectSeq(files, PassesValidation)[k].size

\* C10: for a batch of files handed to the photo uploader, every rejected file
\* produces its own rejection notification naming that file, no Photo is created
\* before processing ends, and when it ends with no processing failure the
\* Photos created are exactly those of the files that pass validation (accepted
\* extension, size within the cap), in file order.
C10_PhotosOfValidFilesOnly ==
    [][/\ (BatchHandedOver =>
              RejectionsReported(photoBatch'.files) /\ photos' = photos)
        /\ (BatchProcessed => PhotosOfValidFiles(photoBatch.files))
        /\ (photoBatch.pc = "processing" /\ photoBatch'.pc = "processing" =>
              Len(photos') <= Len(photos))]_vars

\* 3 files with file 2 unsupported gave exactly 2 Photos and one rejection, for
\* file 2
C10_Witness ==
    /\ photoBatch.files = <<fA, fNotes, fC>>
    /\ photoBatch.pc = "returned"
    /\ photoBatch.failures = 0
    /\ Len(photos) = 2
    /\ photos[1].name = "a.jpg"
    /\ photos[2].name = "c.PNG"
    /\ Len(SelectSeq(toasts, LAMBDA t : t.variant = "destructive")) = 1
    /\ NamesFile(toasts[1], fNotes)

\* the files of a batch whose iteration ended with a pushed photo, in file order
RECURSIVE Succeeded(_, _)
Succeeded(files, outcomes) ==
    IF files = <<>> \/ outcomes = <<>> THEN <<>>
    ELSE (IF Head(outcomes) = "ok" THEN <<Head(files)>> ELSE <<>>)
         \o Succeeded(Tail(files), Tail(outcomes))

PhotoNames(list) == [k \in 1..Len(list) |-> list[k].name]
FileNamesOf(files) == [k \in 1..Len(files) |-> JoinName(files[k].name)]

\* the step is one iteration of the loop of addMultiplePhotos
LoopIteration == photoBatch.pc = "processing" /\ photoBatch'.pc = "processing"

\* the step is the return of addMultiplePhotos
LoopReturns == photoBatch.pc = "processing" /\ photoBatch'.pc = "returned"

\* C11: addMultiplePhotos processes the files of a batch one at a time in file
\* order: each iteration is about the file after the one of the iteration
\* before, whether that one pushed a photo or failed; a failure does not end the
\* loop, which returns only after the last file; the returned list holds exactly
\* the photos of the files that were processed successfully, in file order.
C11_SequentialBatch ==
    [][/\ (LoopIteration /\ photoBatch' # photoBatch =>
              /\ photoBatch.next <= Len(photoBatch.validFiles)
              /\ photoBatch'.next = photoBatch.next + 1
              /\ photoBatch'.validFiles = photoBatch.validFiles
              /\ \/ /\ photoBatch'.failures = photoBatch.failures + 1
                    /\ photoBatch'.processedPhotos = photoBatch.processedPhotos
                 \/ /\ photoBatch'.failures = photoBatch.failures
                    /\ Len(photoBatch'.processedPhotos) =
                          Len(photoBatch.processedPhotos) + 1
                    /\ SubSeq(photoBatch'.processedPhotos, 1,
                              Len(photoBatch.processedPhotos)) =
                          photoBatch.processedPhotos
                    /\ photoBatch'.processedPhotos[Len(photoBatch'.processedPhotos)].name
                          = JoinName(photoBatch.validFiles[photoBatch.next].name))
        /\ (LoopReturns =>
              /\ photoBatch.next = Len(photoBatch.validFiles) + 1
              /\ Len(photoBatch.outcomes) = Len(photoBatch.validFiles)
              /\ photoBatch'.processedPhotos = photoBatch.processedPhotos
              /\ PhotoNames(photoBatch.processedPhotos) =
                    FileNamesOf(Succeeded(photoBatch.validFiles, photoBatch.outcomes))
              /\ Len(photoBatch.processedPhotos) =
                    Len(photoBatch.validFiles) - photoBatch.failures)]_vars

\* the first file of a batch failed and the second was processed all the same
C11_Witness ==
    /\ photoBatch.pc = "returned"
    /\ photoBatch.validFiles = <<fA, fC>>
    /\ photoBatch.outcomes = <<"failed", "ok">>
    /\ PhotoNames(photoBatch.processedPhotos) = <<"c.PNG">>

\* C12: a photo whose thumbnail generation failed is in the photos collection
\* all the same, and both the popup of its map marker and its photo list
\* entry display the full image data (dataUrl) instead.
C12_DisplayFallsBackToDataUrl ==
    \A k \in 1..Len(photos) :
        photos[k].thumbnailUrl = None =>
            /\ PopupImageSrc(photos[k]) = Some(photos[k].dataUrl)
            /\ ListImageSrc(photos[k]) = Some(photos[k].dataUrl)

\* the files the model hands to the uploader
PhotoFiles == UNION {{files[k] : k \in 1..Len(files)} : files \in PhotoBatches}

FileOfPhoto(photo) == CHOOSE file \in PhotoFiles : JoinName(file.name) = photo.name

\* the loop of addMultiplePhotos is at a file whose EXIF extraction fails
AtExifFailure ==
    /\ photoBatch.pc = "processing"
    /\ photoBatch.next <= Len(photoBatch.validFiles)
    /\ photoBatch.validFiles[photoBatch.next].exif.throws

NoMetadata(m) == m.location = None /\ m.timestamp = None

\* C13: when EXIF extraction fails for a file, extractPhotoMetadata does not
\* throw but returns location = null and no timestamp; the iteration of that
\* file can still push its photo, and the photo of such a file has location =
\* null and timestamp undefined, in the list being built and in the collection.
C13_ExifFailureIsNotFatal ==
    /\ \A file \in PhotoFiles :
         file.exif.throws =>
            /\ extractPhotoMetadata(file).kind = "resolved"
            /\ NoMetadata(extractPhotoMetadata(file).value)
    /\ AtExifFailure => ENABLED ProcessFileSucceeds
    /\ \A k \in 1..Len(photoBatch.processedPhotos) :
         FileOfPhoto(photoBatch.processedPhotos[k]).exif.throws =>
            NoMetadata(photoBatch.processedPhotos[k])
    /\ \A k \in 1..Len(photos) :
         FileOfPhoto(photos[k]).exif.throws => NoMetadata(photos[k])

\* the photo of a file whose EXIF extraction failed is in the collection
C13_Witness ==
    \E k \in 1..Len(photos) :
        /\ FileOfPhoto(photos[k]).exif.throws
        /\ photos[k].name = "edge.webp"
        /\ photos[k].location = None
        /\ photos[k].timestamp = None

\* the file is a JPEG, PNG, WEBP, HEIC or HEIF image by its extension or by its
\* declared type
IsSupportedImage(file) ==
    \/ ToLowerCase(file.name[Len(file.name)]) \in
          {"jpg", "jpeg", "png", "webp", "heic", "heif"}
    \/ file.type \in {"image/jpeg", "image/png", "image/webp", "image/heic", "image/heif"}

\* C14: photo validation accepts a file if and only if it is a JPEG, PNG, WEBP,
\* HEIC or HEIF image, by extension or by declared type, of at most 50 MB: the
\* files validateFiles returned for a batch are the files of the batch that are
\* such images, in order (a *.heif file and a file of type image/heic with an
\* unlisted extension included).
C14_AcceptsSupportedImages ==
    photoBatch.pc # "none" =>
        photoBatch.validFiles =
            SelectSeq(photoBatch.files,
                      LAMBDA file : IsSupportedImage(file) /\ file.size <= 52428800)

\* the step ends a GPX upload that failed
GpxUploadFailed ==
    upload # None /\ upload' = None /\ uploadedFiles' = uploadedFiles

\* the step ends a photo batch in which a file failed to process
BatchEndsWithFailures == LoopReturns /\ photoBatch.failures > 0

\* the step shows a failure notification
FailureNotified ==
    /\ Len(toasts') > Len(toasts)
    /\ \E k \in 1..Len(NewToasts) : NewToasts[k].variant = "destructive"

\* the step reports success
SuccessNotified ==
    /\ Len(toasts') > Len(toasts)
    /\ \E k \in 1..Len(NewToasts) : NewToasts[k].variant = "default"

\* C15: a failure other than a format or size rejection and the non-fatal
\* degradations is caught at the handler and shown to the user as a failure
\* notification: a GPX upload that failed is, and a photo batch in which a file
\* failed to process is, and such a batch is not reported as successful.
C15_FailuresAreNotified ==
    [][/\ (GpxUploadFailed => FailureNotified)
        /\ (BatchEndsWithFailures => FailureNotified /\ ~SuccessNotified)]_vars

\* the step ends the upload of a GPX file whose parsing failed: its document has
\* no geometry, or a failure is reported
GpxParseFailed ==
    /\ upload # None
    /\ upload' = None
    /\ Get(upload).doc = EmptyDocument \/ FailureNotified

\* C16: when parsing an uploaded GPX file fails, the failure is shown to the
\* user and the upload has no effect: the tracks collection is unchanged, the
\* file is not appended to the uploaded files, and the uploading flag is false
\* again, so that a later upload can proceed.
C16_FailedUploadHasNoEffect ==
    [][GpxParseFailed =>
          /\ toasts' = Append(toasts, toasts'[Len(toasts')])
          /\ toasts'[Len(toasts')].title = "Upload failed"
          /\ toasts'[Len(toasts')].variant = "destructive"
          /\ tracks' = tracks
          /\ uploadedFiles' = uploadedFiles
          /\ isUploading' = FALSE]_vars

\* an upload failed for lack of geometry, and the next upload went through
C16_Witness ==
    /\ Len(toasts) = 2
    /\ toasts[1] = Toast("Upload failed", NoGeometryFound, "destructive")
    /\ toasts[2].title = "File uploaded successfully"
    /\ Len(tracks) = 2
    /\ FileNamesOf(uploadedFiles) = <<"ride.gpx">>
    /\ ~isUploading

----------------------------------------------------------------------------
(* Claims about the export *)

\* the step is an export request made while the map view is not mounted
ExportRequestedUnmounted == exports' = exports + 1 /\ ~mapMounted

ExportNotReadyToast ==
    Toast("Export failed", "Map is not ready for export", "destructive")

\* C17: an export requested while the map view is not mounted fails with a
\* notification, produces no download, and is confined to that request: the
\* exporting flag is not left set and the tracks are unchanged; a download is
\* only ever produced by an export awaited on a mounted map.
C17_ExportNotReadyIsConfined ==
    [][/\ (ExportRequestedUnmounted =>
              /\ toasts' = Append(toasts, ExportNotReadyToast)
              /\ downloads' = downloads
              /\ isExporting' = FALSE
              /\ tracks' = tracks
              /\ mapMounted' = mapMounted)
        /\ (downloads' # downloads => isExporting /\ mapMounted)]_vars

\* an export failed for lack of a mounted map, and a later one, made once the
\* map was mounted, produced the download
C17_Witness ==
    /\ Len(toasts) = 3
    /\ toasts[2] = ExportNotReadyToast
    /\ toasts[3].title = "Export successful"
    /\ downloads = <<"gpx-track-map-1970-01-01.png">>
    /\ ~isExporting
    /\ mapMounted
    /\ Len(tracks) = 2

----------------------------------------------------------------------------
(* Claims about the track customizer *)

\* the step is a style change that changed a style
StyleStep ==
    /\ edits' = edits + 1
    /\ Len(tracks') = Len(tracks) =>
          \E i \in 1..Len(tracks) : tracks'[i].style # tracks[i].style

\* the Track is as it was but for the style fields listed in the partial style
OnlyStyleFieldsSet(before, after, partialStyle) ==
    /\ after.id = before.id
    /\ after.name = before.name
    /\ after.segments = before.segments
    /\ after.stats = before.stats
    /\ after.visible = before.visible
    /\ DOMAIN after.style = DOMAIN before.style
    /\ \A field \in DOMAIN before.style :
         after.style[field] =
            IF field \in DOMAIN partialStyle THEN partialStyle[field]
            ELSE before.style[field]

\* C18: updateTrackStyle(id, partialStyle) changes only the given style fields
\* of the Track with that id: its stats, segments, name, id, visible flag and
\* unlisted style fields are unchanged, every other Track is unchanged, and so
\* are the order and the length of the collection; stats are not recomputed.
C18_StyleChangeFrame ==
    [][StyleStep =>
          /\ Len(tracks') = Len(tracks)
          /\ \E k \in 1..Len(tracks), partialStyle \in StylePatches :
               \A i \in 1..Len(tracks) :
                  IF tracks[i].id = tracks[k].id
                  THEN OnlyStyleFieldsSet(tracks[i], tracks'[i], partialStyle)
                  ELSE tracks'[i] = tracks[i]]_vars

\* two style changes were made to the second of two Tracks
C18_Witness ==
    /\ Len(tracks) = 2
    /\ edits = 2
    /\ tracks[1].id # tracks[2].id
    /\ tracks[1].style = DEFAULT_STYLE
    /\ tracks[2].style =
          [color |-> "#3182CE", width |-> 5, opacity |-> 1, lineStyle |-> "solid"]
    /\ tracks[2].visible
    /\ tracks[2].stats = calculateTrackStats(tracks[2].segments)

\* the Tracks added by a step
NewTracks == SubSeq(tracks', Len(tracks) + 1, Len(tracks'))

\* C19: every Track that enters the tracks collection through a GPX upload has,
\* when it is added, the default style (color "#E53E3E", width 3, opacity 1,
\* lineStyle "solid"), visible = true, and stats equal to calculateTrackStats of
\* its own segments, whatever style changes and visibility toggles were made
\* before to the Tracks already there, which the upload leaves as they are.
C19_AddedTrackDefaults ==
    [][Len(tracks') > Len(tracks) =>
          /\ SubSeq(tracks', 1, Len(tracks)) = tracks
          /\ \A i \in 1..Len(NewTracks) :
               /\ NewTracks[i].style =
                     [color |-> "#E53E3E", width |-> 3, opacity |-> 1,
                      lineStyle |-> "solid"]
               /\ NewTracks[i].visible = TRUE
               /\ NewTracks[i].stats = calculateTrackStats(NewTracks[i].segments)]_vars

\* a second upload added two Tracks to a collection whose first Track is
\* restyled and whose second is hidden
C19_Witness ==
    /\ Len(tracks) = 4
    /\ Len(uploadedFiles) = 2
    /\ edits = 2
    /\ tracks[1].style # DEFAULT_STYLE
    /\ ~tracks[2].visible
    /\ \A i \in 3..4 :
         /\ tracks[i].style = DEFAULT_STYLE
         /\ tracks[i].visible
         /\ tracks[i].stats = calculateTrackStats(tracks[i].segments)

\* nothing but the tracks collection changes in the step
OnlyTracksChange ==
    UNCHANGED <<isUploading, uploadedFiles, upload, handled, edits, clock, toasts>>

\* C20: removeTrack(id) removes the Track with that id and leaves every other
\* Track present, unchanged and in the same relative order; clearAllTracks
\* leaves the collection empty; a Track leaves the collection only through one
\* of the two: a step that makes the collection shorter is such a removal and
\* nothing else, and any other step keeps every Track at its place.
C20_TracksLeaveByRemovalOnly ==
    [][/\ (Len(tracks') < Len(tracks) =>
              /\ OnlyTracksChange
              /\ \/ tracks' = <<>>
                 \/ \E k \in 1..Len(tracks) :
                      /\ \A i \in 1..Len(tracks') : tracks'[i].id # tracks[k].id
                      /\ tracks' = SelectSeq(tracks, LAMBDA t : t.id # tracks[k].id))
        /\ (Len(tracks') >= Len(tracks) =>
              \A i \in 1..Len(tracks) : tracks'[i].id = tracks[i].id)]_vars

\* the second of four Tracks was removed: the first, the third and the fourth
\* are left, in that order
C20_Witness ==
    /\ Len(tracks) = 3
    /\ Len(uploadedFiles) = 2
    /\ tracks[1].name = "Alps"
    /\ tracks[2].name = "Alps"
    /\ tracks[3].name = "Route 1"
    /\ tracks[1].id # tracks[2].id

----------------------------------------------------------------------------
(* Claims about createThumbnail *)

\* C21: once createThumbnail has started decoding the image its promise is
\* eventually resolved; it is never rejected; it is resolved with a data URL
\* only by an image load that came before the timer fired, and with null
\* otherwise; and a settled promise keeps its value, so an image load after the
\* timeout changes nothing.
C21_ThumbnailSettlesOnce ==
    /\ [](thumb.promise.kind \in {"pending", "resolved"})
    /\ [][/\ thumb.promise.kind = "resolved" => thumb'.promise = thumb.promise
          /\ (thumb.promise.kind = "pending" /\ thumb'.promise.kind = "resolved"
                /\ thumb'.promise.value # None)
             => /\ thumb.pc = "decoding" /\ thumb'.pc = "loaded"
                /\ thumb.timer = "armed" /\ thumb'.timer = "cleared"
                /\ thumb'.promise.value = Some(ThumbnailDataUrl(thumb.file, thumb.size))
                /\ thumb'.promise.value[1].width <= ThumbnailMaxSize
                /\ thumb'.promise.value[1].height <= ThumbnailMaxSize
          /\ (thumb.promise.kind = "pending" /\ thumb'.timer = "fired")
             => thumb'.promise = Resolved(None)]_vars
    /\ (thumb.pc = "decoding") ~> (thumb.promise.kind = "resolved")

\* the timer fired first and the image loaded afterwards: the result is null
C21_Witness ==
    /\ thumb.pc = "loaded"
    /\ thumb.timer = "fired"
    /\ thumb.promise = Resolved(None)

----------------------------------------------------------------------------
(* Further claims about the normalizer *)

\* C22: every Track emitted from a source track has exactly one segment, which
\* holds all points of the source track in source order, for every length of
\* the point list, the empty list included.
C22_SourceTrackHasOneSegment ==
    parsed.kind = "ok" =>
        \A i \in 1..T :
            /\ Len(parsed.tracks[i].segments) = 1
            /\ Coordinates(parsed.tracks[i].segments[1].points)
                 = Coordinates(gpx.tracks[i].points)

\* what holds instead: one segment with all points for a non-empty point list,
\* no segment at all for an empty one
C22_SegmentOnlyWithPoints ==
    parsed.kind = "ok" =>
        \A i \in 1..T :
            IF gpx.tracks[i].points = <<>>
            THEN parsed.tracks[i].segments = <<>>
            ELSE /\ Len(parsed.tracks[i].segments) = 1
                 /\ Coordinates(parsed.tracks[i].segments[1].points)
                      = Coordinates(gpx.tracks[i].points)

----------------------------------------------------------------------------
(* Further claims about the statistics aggregator *)

SamePosition(p, q) == p.lat = q.lat /\ p.lon = q.lon

\* the adjacent pairs of one segment whose two points differ in position
MovingPairs(segs) ==
    {ki \in AdjacentPairs(segs) : ~SamePosition(PointAt(segs, PrevOf(ki)), PointAt(segs, ki))}

PairDistance(segs, ki) ==
    calculateDistance(PointAt(segs, PrevOf(ki)).lat, PointAt(segs, PrevOf(ki)).lon,
                      PointAt(segs, ki).lat, PointAt(segs, ki).lon)

\* C23: calculateDistance of a position to itself is exactly 0, for every
\* position, so a point that repeats the position of the point before it adds
\* nothing to the distance of the track: the distance is the sum over the
\* adjacent pairs that differ in position.
C23_DistanceToItselfIsZero ==
    /\ \A lat \in {-60, 0, 60}, lon \in {-60, 0, 60, 120, 180, 240, 300} :
          calculateDistance(lat, lon, lat, lon) = 0
    /\ stats # None =>
          /\ \A ki \in AllPoints(segments) :
                calculateDistance(PointAt(segments, ki).lat, PointAt(segments, ki).lon,
                                  PointAt(segments, ki).lat, PointAt(segments, ki).lon) = 0
          /\ Get(stats).distance =
                SumSet(MovingPairs(segments),
                       [ki \in MovingPairs(segments) |-> PairDistance(segments, ki)])

\* a point away from the equator is repeated, between two moves
C23_Witness ==
    /\ stats # None
    /\ MovingPairs(segments) # {}
    /\ \E ki \in AdjacentPairs(segments) \ MovingPairs(segments) :
          PointAt(segments, ki).lat = 60 /\ PointAt(segments, ki).lon = 60
    /\ Get(stats).distance > 0

\* C24: distance, elevation gain and elevation loss are summed over the adjacent
\* pairs inside one segment only; the last point of a segment and the first point
\* of the next contribute nothing, so each total is the sum of the totals of the
\* segments taken one by one.
C24_SegmentsDoNotConnect ==
    stats # None =>
        LET alone == [k \in 1..Len(segments) |-> calculateTrackStats(<<segments[k]>>)]
        IN /\ Get(stats).distance =
                 SumSet(AdjacentPairs(segments),
                        [ki \in AdjacentPairs(segments) |-> PairDistance(segments, ki)])
           /\ Get(stats).distance = SumSeq([k \in 1..Len(segments) |-> alone[k].distance])
           /\ Get(stats).elevationGain =
                 SumSeq([k \in 1..Len(segments) |-> alone[k].elevationGain])
           /\ Get(stats).elevationLoss =
                 SumSeq([k \in 1..Len(segments) |-> alone[k].elevationLoss])

\* two segments, the second starting away from the end of the first and at
\* another elevation, and a move inside a segment
C24_Witness ==
    /\ stats # None
    /\ Len(segments) = 2
    /\ segments[1].points # <<>> /\ segments[2].points # <<>>
    /\ LET last == segments[1].points[Len(segments[1].points)]
           first == segments[2].points[1]
       IN /\ ~SamePosition(last, first)
          /\ last.ele # None /\ first.ele # None /\ last.ele # first.ele
    /\ Get(stats).distance > 0

TimeValues(segs) ==
    {Get(PointAt(segs, ki).time) : ki \in {q \in AllPoints(segs) : PointAt(segs, q).time # None}}

\* C25: the duration is the latest timestamp minus the earliest, in seconds,
\* over all points of all segments that carry a timestamp, in whatever order the
\* points appear; it is undefined exactly when no point carries a timestamp.
C25_DurationIsLatestMinusEarliest ==
    stats # None =>
        /\ Get(stats).duration = None <=> TimeValues(segments) = {}
        /\ TimeValues(segments) # {} =>
              Get(stats).duration =
                  Some((SetMax(TimeValues(segments)) - SetMin(TimeValues(segments))) \div 1000)

\* the latest timestamp comes first, the earliest is the first point of the next
\* segment, and a point without a timestamp follows
C25_Witness ==
    /\ stats # None
    /\ Len(segments) = 2
    /\ Len(segments[1].points) = 1 /\ Len(segments[2].points) = 2
    /\ segments[1].points[1].time = Some(2000)
    /\ segments[2].points[1].time = Some(0)
    /\ segments[2].points[2].time = None
    /\ Get(stats).duration = Some(2)

----------------------------------------------------------------------------
(* Claims about the calls of usePhotos in flight *)

CallsInFlight == Len(addCalls.running) + (IF photoBatch.pc = "processing" THEN 1 ELSE 0)

\* C26: isProcessing is true in every state in which an addPhoto or
\* addMultiplePhotos call is in flight, overlapping calls included, and false
\* once all calls have finished.
C26_FlagCoversCallsInFlight == isProcessing <=> CallsInFlight > 0

\* what holds instead: the flag is the one the last call to start or finish
\* left, so it is never true without a call in flight
C26_FlagOnlyWhileInFlight == isProcessing => CallsInFlight > 0


\* C27: the photos of a batch enter the collection in one step, the return of
\* addMultiplePhotos after the last file: the iterations of the loop leave the
\* collection alone, and the return appends the processed photos, in file order,
\* to the collection as it is then, so after every photo already there and
\* without undoing a removal, a visibility toggle or a clear that took effect
\* while the batch was in flight.
C27_BatchAppendsOnceAtTheEnd ==
    [][/\ (LoopIteration /\ photoBatch' # photoBatch) => photos' = photos
       /\ LoopReturns =>
             /\ photos' = photos \o photoBatch.processedPhotos
             /\ PhotoNames(NewPhotos) =
                   FileNamesOf(Succeeded(photoBatch.validFiles, photoBatch.outcomes))
       /\ (photoBatch' = photoBatch /\ Len(photos') > Len(photos)) =>
             Len(addCalls'.running) < Len(addCalls.running)]_vars

\* the batch returned with a photo; the photo that addPhoto added while the
\* batch was in flight was hidden before the return and still is, ahead of the
\* photos of the batch
C27_Witness ==
    /\ photoBatch.pc = "returned"
    /\ photoBatch.processedPhotos # <<>>
    /\ photos = <<photos[1]>> \o photoBatch.processedPhotos
    /\ ~photos[1].visible
    /\ \A k \in 2..Len(photos) : photos[k].visible

----------------------------------------------------------------------------
(* Further claims about the export *)

\* C28: an export attempt on the mounted map shows no notification while it
\* runs and ends, whether the snapshot succeeded or threw, with the exporting
\* flag false, the map controls visible again and exactly one notification
\* added, a success with the download or a failure without; the controls are
\* hidden only while the flag is true; and while the flag is true the button
\* starts no other export.
C28_ExportAttemptCleansUp ==
    /\ [](controlsHidden => isExporting /\ mapMounted)
    /\ [][/\ isExporting' => toasts' = toasts
          /\ isExporting => exports' = exports
          /\ (isExporting /\ ~isExporting') =>
                /\ ~controlsHidden'
                /\ Len(toasts') = Len(toasts) + 1
                /\ \/ /\ NewToasts[1].variant = "default"
                      /\ controlsHidden
                      /\ Len(downloads') = Len(downloads) + 1
                   \/ /\ NewToasts[1].variant = "destructive"
                      /\ downloads' = downloads]_vars

\* two attempts on the mounted map are over, one failed and one downloaded the
\* image; the controls are visible and the flag is false
C28_Witness ==
    /\ exports = 2
    /\ Len(downloads) = 1
    /\ \E k \in 1..Len(toasts) : toasts[k].description = "Failed to export the map"
    /\ ~isExporting
    /\ ~controlsHidden

----------------------------------------------------------------------------
(* Claims about the timestamps of the emitted Tracks *)

TimedPoints(points) == {k \in 1..Len(points) : points[k].time # None}

\* C29: a Track emitted from a route or from the waypoints has no point with a
\* timestamp and an undefined duration, even when the points of the source route
\* carry timestamps; a Track with a defined duration is one emitted from a
\* source track.
C29_OnlySourceTracksAreTimed ==
    parsed.kind = "ok" =>
        \A i \in 1..Len(parsed.tracks) :
            /\ parsed.tracks[i].id[1] \in {"route", "waypoints"} =>
                  /\ parsed.tracks[i].stats.duration = None
                  /\ TimedPoints(PointsOfSegments(parsed.tracks[i].segments)) = {}
            /\ parsed.tracks[i].stats.duration # None =>
                  /\ parsed.tracks[i].id[1] = "track"
                  /\ i <= T
                  /\ TimedPoints(gpx.tracks[i].points) # {}

\* a source track and a route with the same timestamped points: the Track of
\* the track lasts 2 seconds, the Track of the route has no duration
C29_Witness ==
    /\ parsed.kind = "ok"
    /\ T = 1 /\ R = 1
    /\ gpx.routes[1].points = gpx.tracks[1].points
    /\ Cardinality(TimedPoints(gpx.routes[1].points)) >= 2
    /\ parsed.tracks[1].stats.duration = Some(2)
    /\ parsed.tracks[2].stats.duration = None

====
